---- MODULE Spec2Model ----
(***************************************************************************)
(* Media playlist of the m3u8 package: the segment ring of MediaPlaylist,  *)
(* its mutators, the encoder with its cache, and the line decoder.         *)
(*                                                                         *)
(* Conventions.                                                            *)
(*  - A *MediaSegment slot of the ring is <<>> (nil) or <<seg>>.           *)
(*  - Durations are in tenths of a second (15 is 1.5 s), so that Ceil and  *)
(*    Round differ.  Strings (URI, title, key) are small integers: URI n   *)
(*    stands for "test<n>.ts" and 0 for the empty string / a nil pointer.  *)
(*  - An encoded playlist is the sequence of its lines, each a record      *)
(*    [tag, val].                                                          *)
(*  - Every Append / AppendSegment / Slide call is given a newly allocated *)
(*    segment whose URI is the next unused name, as in the README and the  *)
(*    tests (test0.ts, test1.ts, ...).                                     *)
(***************************************************************************)
EXTENDS Integers, Sequences, FiniteSets, TLC

VARIABLES
    Segments,          \* p.Segments: ring storage, indices 0 .. len-1
    capacity,          \* p.capacity
    winsize,           \* p.winsize
    head,              \* p.head
    tail,              \* p.tail
    count,             \* p.count
    SeqNo,             \* p.SeqNo
    Closed,            \* p.Closed
    TargetDuration,    \* p.TargetDuration
    targetDurLocked,   \* p.targetDurLocked
    ver,               \* p.ver
    Key,               \* p.Key (default key, 0 is nil)
    buf,               \* p.buf: the encode cache
    lastOp,            \* name of the call that returned last
    lastErr,           \* what that call returned
    lastArgs,          \* the arguments of that call, where they are needed
    appended,          \* history: the append calls made so far
    decoding,          \* <<>>, or <<state>>: the decodingState of the
                       \* decode call in progress
    MediaType,         \* p.MediaType (0, EVENT or VOD)
    Defines,           \* p.Defines: the types of the EXT-X-DEFINE tags
    Map,               \* p.Map: the default EXT-X-MAP (0: nil)
    encoding,          \* the Encode calls of two threads that share the
                       \* playlist: where each is, what it has returned
    master,            \* the multivariant playlist of the program
    auto               \* the call of the auto-detecting decode: its master
                       \* playlist, the lines read, its result

vars == <<Segments, capacity, winsize, head, tail, count, SeqNo, Closed,
          TargetDuration, targetDurLocked, ver, Key, buf, lastOp, lastErr,
          appended, decoding, MediaType, auto, lastArgs, Defines, master,
          Map, encoding>>

(***************************************************************************)
(* Bounds of the model.                                                    *)
(***************************************************************************)
MaxCap == 3
MaxSegs == 4
MaxClose == 2
MaxLines == 4
MaxAutoLines == 3

Durations == {4, 15}
Versions == {3, 6}
TargetDurations == {1, 5}
Keys == {1}

(***************************************************************************)
(* Program constants and errors.                                           *)
(***************************************************************************)
minVer == 3

\* MediaType values (0: none).
EVENT == 1
VOD == 2

\* What the auto-detecting decode creates its media playlist with.
AutoWinSize == 8
AutoCapacity == 1024

ErrNone == "nil"
ErrPlaylistFull == "ErrPlaylistFull"
ErrPlaylistEmpty == "ErrPlaylistEmpty"
ErrWinSizeTooSmall == "ErrWinSizeTooSmall"
Panic == "panic"

Ret(p, err) == [p |-> p, err |-> err]

(***************************************************************************)
(* The playlist object as one record, and its installation as next state.  *)
(***************************************************************************)
Self ==
    [Segments |-> Segments, capacity |-> capacity, winsize |-> winsize,
     head |-> head, tail |-> tail, count |-> count, SeqNo |-> SeqNo,
     Closed |-> Closed, TargetDuration |-> TargetDuration,
     targetDurLocked |-> targetDurLocked, ver |-> ver, Key |-> Key,
     buf |-> buf, MediaType |-> MediaType, Defines |-> Defines, Map |-> Map]

Install(q) ==
    /\ Segments' = q.Segments
    /\ capacity' = q.capacity
    /\ winsize' = q.winsize
    /\ head' = q.head
    /\ tail' = q.tail
    /\ count' = q.count
    /\ SeqNo' = q.SeqNo
    /\ Closed' = q.Closed
    /\ TargetDuration' = q.TargetDuration
    /\ targetDurLocked' = q.targetDurLocked
    /\ ver' = q.ver
    /\ Key' = q.Key
    /\ buf' = q.buf
    /\ MediaType' = q.MediaType
    /\ Defines' = q.Defines
    /\ Map' = q.Map

NewSegment(uri, duration, title) ==
    [URI |-> uri, Duration |-> duration, Title |-> title, SeqId |-> 0,
     Key |-> 0, Discontinuity |-> FALSE, SCTE35DateRanges |-> 0,
     Map |-> 0, Limit |-> 0, SCTE |-> 0, ProgramDateTime |-> 0, Custom |-> 0]

Ceil(d) == (d + 9) \div 10
Round(d) == (d + 5) \div 10

\* Faulty variant: the version test is off by one (v6 still rounds up).
calcNewTargetDuration_CeilAtSix(segDur, hlsVer, oldTargetDuration) ==
    LET new == IF hlsVer <= 6 THEN Ceil(segDur) ELSE Round(segDur)
    IN  IF new > oldTargetDuration THEN new ELSE oldTargetDuration

calcNewTargetDuration(segDur, hlsVer, oldTargetDuration) ==
    LET new == IF hlsVer < 6 THEN Ceil(segDur) ELSE Round(segDur)
    IN  IF new > oldTargetDuration THEN new ELSE oldTargetDuration

\* Faulty variant: a window one above capacity is accepted.
SetWinSize_OneAbove(p, w) ==
    IF w > p.capacity + 1
    THEN Ret(p, ErrWinSizeTooSmall)
    ELSE Ret([p EXCEPT !.winsize = w], ErrNone)

\* Faulty variant: the window is assigned before it is tested.
SetWinSize_AssignsFirst(p, w) ==
    IF w > p.capacity
    THEN Ret([p EXCEPT !.winsize = w], ErrWinSizeTooSmall)
    ELSE Ret([p EXCEPT !.winsize = w], ErrNone)

SetWinSize(p, w) ==
    IF w > p.capacity
    THEN Ret(p, ErrWinSizeTooSmall)
    ELSE Ret([p EXCEPT !.winsize = w], ErrNone)

NewMediaPlaylist(w, cap) ==
    LET p0 == [Segments |-> <<>>, capacity |-> cap, winsize |-> 0,
               head |-> 0, tail |-> 0, count |-> 0, SeqNo |-> 0,
               Closed |-> FALSE, TargetDuration |-> 0,
               targetDurLocked |-> FALSE, ver |-> minVer, Key |-> 0,
               buf |-> <<>>, MediaType |-> 0, Defines |-> <<>>,
               Map |-> 0]
        r  == SetWinSize(p0, w)
    IN  IF r.err # ErrNone
        THEN r
        ELSE Ret([r.p EXCEPT !.Segments = [i \in 0 .. cap - 1 |-> <<>>]],
                 ErrNone)

\* Faulty variant: Remove forgets to advance SeqNo.
Remove_NoBump(p) ==
    IF p.count = 0
    THEN Ret(p, ErrPlaylistEmpty)
    ELSE Ret([p EXCEPT !.head = (p.head + 1) % p.capacity,
                       !.count = p.count - 1,
                       !.buf = <<>>],
             ErrNone)

\* Faulty variant: Remove advances SeqNo on a closed playlist too.
Remove_BumpWhenClosed(p) ==
    IF p.count = 0
    THEN Ret(p, ErrPlaylistEmpty)
    ELSE Ret([p EXCEPT !.head = (p.head + 1) % p.capacity,
                       !.count = p.count - 1,
                       !.SeqNo = p.SeqNo + 1,
                       !.buf = <<>>],
             ErrNone)

Remove(p) ==
    IF p.count = 0
    THEN Ret(p, ErrPlaylistEmpty)
    ELSE Ret([p EXCEPT !.head = (p.head + 1) % p.capacity,
                       !.count = p.count - 1,
                       !.SeqNo = IF ~p.Closed THEN p.SeqNo + 1 ELSE p.SeqNo,
                       !.buf = <<>>],
             ErrNone)

\* Faulty variant: the tail index is not wrapped.
AppendSegment_NoWrap(p, seg) ==
    IF p.head = p.tail /\ p.count > 0
    THEN Ret(p, ErrPlaylistFull)
    ELSE IF p.capacity = 0 \/ p.tail \notin DOMAIN p.Segments
    THEN Ret(p, Panic)
    ELSE IF p.count > 0 /\ p.Segments[(p.capacity + p.tail - 1) % p.capacity] = <<>>
    THEN Ret(p, Panic)
    ELSE
      LET seqId == IF p.count > 0
                   THEN p.Segments[(p.capacity + p.tail - 1) % p.capacity][1].SeqId + 1
                   ELSE p.SeqNo
          s == [seg EXCEPT !.SeqId = seqId]
      IN  Ret([p EXCEPT !.Segments[p.tail] = <<s>>,
                        !.tail = p.tail + 1,
                        !.count = p.count + 1,
                        !.TargetDuration =
                            IF ~p.targetDurLocked
                            THEN calcNewTargetDuration(seg.Duration, p.ver,
                                                       p.TargetDuration)
                            ELSE p.TargetDuration,
                        !.buf = <<>>],
              ErrNone)

\* Faulty variant: the sequence id is derived from SeqNo and count, not from the
\* last segment.
AppendSegment_SeqFromCount(p, seg) ==
    IF p.head = p.tail /\ p.count > 0
    THEN Ret(p, ErrPlaylistFull)
    ELSE IF p.capacity = 0 \/ p.tail \notin DOMAIN p.Segments
    THEN Ret(p, Panic)
    ELSE IF p.count > 0 /\ p.Segments[(p.capacity + p.tail - 1) % p.capacity] = <<>>
    THEN Ret(p, Panic)
    ELSE
      LET seqId == p.SeqNo + p.count
          s == [seg EXCEPT !.SeqId = seqId]
      IN  Ret([p EXCEPT !.Segments[p.tail] = <<s>>,
                        !.tail = (p.tail + 1) % p.capacity,
                        !.count = p.count + 1,
                        !.TargetDuration =
                            IF ~p.targetDurLocked
                            THEN calcNewTargetDuration(seg.Duration, p.ver,
                                                       p.TargetDuration)
                            ELSE p.TargetDuration,
                        !.buf = <<>>],
              ErrNone)

AppendSegment(p, seg) ==
    IF p.head = p.tail /\ p.count > 0
    THEN Ret(p, ErrPlaylistFull)
    ELSE IF p.capacity = 0 \/ p.tail \notin DOMAIN p.Segments
    THEN Ret(p, Panic)
    ELSE IF p.count > 0 /\ p.Segments[(p.capacity + p.tail - 1) % p.capacity] = <<>>
    THEN Ret(p, Panic)
    ELSE
      LET seqId == IF p.count > 0
                   THEN p.Segments[(p.capacity + p.tail - 1) % p.capacity][1].SeqId + 1
                   ELSE p.SeqNo
          s == [seg EXCEPT !.SeqId = seqId]
      IN  Ret([p EXCEPT !.Segments[p.tail] = <<s>>,
                        !.tail = (p.tail + 1) % p.capacity,
                        !.count = p.count + 1,
                        !.TargetDuration =
                            IF ~p.targetDurLocked
                            THEN calcNewTargetDuration(seg.Duration, p.ver,
                                                       p.TargetDuration)
                            ELSE p.TargetDuration,
                        !.buf = <<>>],
              ErrNone)

\* MediaPlaylist.Append (Append itself names the operator of Sequences).
MediaAppend(p, uri, duration, title) ==
    AppendSegment(p, NewSegment(uri, duration, title))

\* Faulty variant: the window test of Slide is off by one.
Slide_OffByOne(p, uri, duration, title) ==
    LET q == IF ~p.Closed /\ p.count > p.winsize THEN Remove(p).p ELSE p
    IN  MediaAppend(q, uri, duration, title)

\* Slide returns nothing; the result carries the error its Append dropped.
Slide(p, uri, duration, title) ==
    LET q == IF ~p.Closed /\ p.count >= p.winsize THEN Remove(p).p ELSE p
    IN  MediaAppend(q, uri, duration, title)

\* The slots the loops of CalculateTargetDuration visit.
VisitedSlots(p) ==
    IF p.tail >= p.head
    THEN p.head .. p.tail - 1
    ELSE (p.head .. p.capacity - 1) \cup (0 .. p.tail - 1)

CalculateTargetDuration(p, hlsVer) ==
    IF p.count = 0
    THEN 0
    ELSE IF \E i \in VisitedSlots(p) : p.Segments[i] = <<>>
    THEN Panic
    ELSE LET ds  == {p.Segments[i][1].Duration : i \in VisitedSlots(p)}
                        \cup {0}
             max == CHOOSE d \in ds : \A e \in ds : e <= d
         IN  calcNewTargetDuration(max, hlsVer, 0)

\* The slots GetAllSegments returns, in the order it appends them.
GetAllSegments(p) ==
    IF p.count = 0
    THEN <<>>
    ELSE IF p.head < p.tail
    THEN [k \in 1 .. p.tail - p.head |-> p.Segments[p.head + k - 1]]
    ELSE [k \in 1 .. p.tail |-> p.Segments[k - 1]]
         \o [k \in 1 .. p.capacity - p.head |-> p.Segments[p.head + k - 1]]

last(p) == IF p.tail = 0 THEN p.capacity - 1 ELSE p.tail - 1

(***************************************************************************)
(* Encoder.                                                                *)
(***************************************************************************)
Line(tag, val) == [tag |-> tag, val |-> val]

\* strconv.FormatFloat(d, 'f', 3, 32): three decimals, i.e. thousandths.
FormatDuration(d) == d * 100

KeyChanged(p, seg) == seg.Key # 0 /\ (p.Key = 0 \/ seg.Key # p.Key)

SegmentLines(p, seg) ==
    (IF seg.SCTE # 0 THEN <<Line("EXT-SCTE35", seg.SCTE)>> ELSE <<>>)
    \o [i \in 1 .. seg.SCTE35DateRanges |-> Line("EXT-X-DATERANGE", 1)]
    \o (IF KeyChanged(p, seg) THEN <<Line("EXT-X-KEY", seg.Key)>> ELSE <<>>)
    \o (IF seg.Discontinuity THEN <<Line("EXT-X-DISCONTINUITY", 0)>> ELSE <<>>)
    \o (IF p.Map = 0 /\ seg.Map # 0
        THEN <<Line("EXT-X-MAP", seg.Map)>> ELSE <<>>)
    \o (IF seg.ProgramDateTime # 0
        THEN <<Line("EXT-X-PROGRAM-DATE-TIME", seg.ProgramDateTime)>>
        ELSE <<>>)
    \o (IF seg.Limit > 0 THEN <<Line("EXT-X-BYTERANGE", seg.Limit)>> ELSE <<>>)
    \o (IF seg.Custom # 0 THEN <<Line("CUSTOM", seg.Custom)>> ELSE <<>>)
    \o <<Line("EXTINF", FormatDuration(seg.Duration)), Line("URI", seg.URI)>>

\* The segment loop of Encode: h and cnt are its head and count, i its
\* window counter.
RECURSIVE EncodeSegments(_, _, _, _)
EncodeSegments(p, h, cnt, i) ==
    IF ~((i < p.winsize \/ p.winsize = 0) /\ cnt > 0)
    THEN <<>>
    ELSE LET seg == p.Segments[h]
             h2  == (h + 1) % p.capacity
         IN  IF seg = <<>>
             THEN EncodeSegments(p, h2, cnt - 1, i)
             ELSE SegmentLines(p, seg[1])
                  \o EncodeSegments(p, h2, cnt - 1,
                                    IF p.winsize > 0 THEN i + 1 ELSE i)

EncodeHeader(p) ==
    <<Line("EXTM3U", 0), Line("EXT-X-VERSION", p.ver)>>
    \o (IF p.Key # 0 THEN <<Line("EXT-X-KEY", p.Key)>> ELSE <<>>)
    \o (IF p.Map # 0 THEN <<Line("EXT-X-MAP", p.Map)>> ELSE <<>>)
    \o (IF p.MediaType > 0
        THEN <<Line("EXT-X-PLAYLIST-TYPE", p.MediaType)>> ELSE <<>>)
    \o <<Line("EXT-X-MEDIA-SEQUENCE", p.SeqNo),
         Line("EXT-X-TARGETDURATION", p.TargetDuration)>>

\* Faulty variant: no test of the cache, the text is written after what
\* the buffer holds.
Encode_NoCacheTest(p) ==
    [p EXCEPT !.buf =
        @ \o EncodeHeader(p)
          \o EncodeSegments(p, p.head, p.count, 0)
          \o (IF p.Closed THEN <<Line("EXT-X-ENDLIST", 0)>> ELSE <<>>)]

Encode(p) ==
    IF Len(p.buf) > 0
    THEN p
    ELSE [p EXCEPT !.buf =
            EncodeHeader(p)
            \o EncodeSegments(p, p.head, p.count, 0)
            \o (IF p.Closed THEN <<Line("EXT-X-ENDLIST", 0)>> ELSE <<>>)]

Close(p) ==
    [p EXCEPT !.buf = IF Len(p.buf) > 0
                      THEN Append(p.buf, Line("EXT-X-ENDLIST", 0))
                      ELSE p.buf,
              !.Closed = TRUE]

SetTargetDuration(p, duration) ==
    [p EXCEPT !.TargetDuration = duration, !.targetDurLocked = TRUE]

SetVersion(p, v) == [p EXCEPT !.ver = v]

updateVersion(v, newVer) == IF v < newVer THEN newVer ELSE v

\* A key is its id; keyformat tells whether KEYFORMAT or KEYFORMATVERSIONS
\* is given with it.
SetKey(p, key, keyformat) ==
    IF p.count = 0
    THEN Ret(p, ErrPlaylistEmpty)
    ELSE IF p.Segments[last(p)] = <<>>
    THEN Ret(p, Panic)
    ELSE Ret([p EXCEPT !.ver = IF keyformat THEN updateVersion(p.ver, 5)
                                            ELSE p.ver,
                       !.Segments[last(p)] =
                           <<[p.Segments[last(p)][1] EXCEPT !.Key = key]>>],
             ErrNone)

SetDiscontinuity(p) ==
    IF p.count = 0
    THEN Ret(p, ErrPlaylistEmpty)
    ELSE IF p.Segments[last(p)] = <<>>
    THEN Ret(p, Panic)
    ELSE Ret([p EXCEPT !.Segments[last(p)] =
                  <<[p.Segments[last(p)][1] EXCEPT !.Discontinuity = TRUE]>>],
             ErrNone)

\* p.Segments[p.last()].<field> = value, behind the count test the
\* per-segment setters share.
SetOnLast(p, field, value, newVer) ==
    IF p.count = 0
    THEN Ret(p, ErrPlaylistEmpty)
    ELSE IF p.Segments[last(p)] = <<>>
    THEN Ret(p, Panic)
    ELSE Ret([p EXCEPT !.ver = updateVersion(p.ver, newVer),
                       !.Segments[last(p)] =
                           <<[p.Segments[last(p)][1] EXCEPT ![field] = value]>>],
             ErrNone)

SetMap(p, uri) == SetOnLast(p, "Map", uri, 5)

\* The default EXT-X-MAP of the playlist; the cache is left as it is.
SetDefaultMap(p, uri) ==
    [p EXCEPT !.ver = updateVersion(p.ver, 5), !.Map = uri]

\* Limit and offset are set together; the model keeps the limit.
SetRange(p, limit) == SetOnLast(p, "Limit", limit, 4)

\* Faulty variant: SetSCTE35 does not test count.
SetSCTE35_NoCountTest(p, scte35) ==
    IF last(p) \notin DOMAIN p.Segments \/ p.Segments[last(p)] = <<>>
    THEN Ret(p, Panic)
    ELSE Ret([p EXCEPT !.Segments[last(p)] =
                  <<[p.Segments[last(p)][1] EXCEPT !.SCTE = scte35]>>],
             ErrNone)

SetSCTE35(p, scte35) == SetOnLast(p, "SCTE", scte35, 0)

SetProgramDateTime(p, value) == SetOnLast(p, "ProgramDateTime", value, 0)

SetCustomSegmentTag(p, tag) == SetOnLast(p, "Custom", tag, 0)

(***************************************************************************)
(* Decoder of a media playlist.  An input line is a record [tag, val] as   *)
(* the encoder writes it.                                                  *)
(***************************************************************************)
ErrExtM3UAbsent == "ErrExtM3UAbsent"

\* Any error made with fmt.Errorf or returned by a parsing function.
ErrParse == "ErrParse"
ErrDanglingSCTE35DateRange == "ErrDanglingSCTE35DateRange"
ErrCannotDetectPlaylistType == "ErrCannotDetectPlaylistType"

\* Values of a line that are not a number: "invalid" where a number is
\* expected, "#EXTINF:" with neither duration nor comma, "#EXTINF:," with
\* an empty duration.
BadNumber == -1
NoDuration == -2
EmptyDuration == -3

\* The value of an EXT-X-DEFINE line is its type: VALUE, QUERYPARAM or
\* IMPORT, or BadDefine for a line of none of the three forms.
BadDefine == "BAD"

\* AppendDefine, on either playlist: the define joins p.Defines.
AppendDefine(defines, type) == Append(defines, type)

NewDecodingState(strict) ==
    [strict |-> strict, m3u |-> FALSE, tagInf |-> FALSE, duration |-> 0,
     title |-> 0, listType |-> "none", tagStreamInf |-> FALSE,
     tagSCTE35 |-> FALSE, scte35DateRanges |-> 0, scte |-> 0,
     tagRange |-> FALSE, limit |-> 0, tagDiscontinuity |-> FALSE,
     tagProgramDateTime |-> FALSE, programDateTime |-> 0,
     tagKey |-> FALSE, xkey |-> 0, tagMap |-> FALSE, xmap |-> 0,
     tagCustom |-> FALSE, custom |-> 0]

\* strconv.ParseFloat of a duration written with three decimals.
ParseDuration(val) == val \div 100

\* The text of an EXTINF line after the colon, "<duration>,<title>", is
\* the number title * TitleBase + duration (in thousandths); the two parts
\* are what stands before and after the comma.  Title 0 is the empty one.
TitleBase == 100000
Titled(duration, title) == title * TitleBase + duration
DurationPart(val) == val % TitleBase
TitlePart(val) == val \div TitleBase

DRet(p, state, err) == [p |-> p, state |-> state, err |-> err]

\* The ring extension of the URI case: Count() nil slots are added, the
\* capacity becomes the new length and tail becomes count.
ExtendRing(p) ==
    LET n == p.capacity + p.count
    IN  [p EXCEPT !.Segments = [i \in 0 .. n - 1 |->
                                   IF i < p.capacity THEN p.Segments[i]
                                                     ELSE <<>>],
                  !.capacity = n,
                  !.tail = p.count]

\* The tagInf block of the URI case.
DecodeSegment(p, state, uri) ==
    IF state.tagInf
    THEN LET r1 == MediaAppend(p, uri, state.duration, state.title)
             r  == IF r1.err = ErrPlaylistFull
                   THEN MediaAppend(ExtendRing(p), uri, state.duration,
                                    state.title)
                   ELSE r1
         IN  IF r.err # ErrNone
             THEN DRet(r.p, state, r.err)
             ELSE DRet(r.p, [state EXCEPT !.tagInf = FALSE], ErrNone)
    ELSE DRet(p, state, ErrNone)

\* A block of the URI case runs unless an earlier block has returned: in
\* strict mode a block returns its setter's error, and a panic ends the
\* call in either mode.
Returns(strict, err) == err = Panic \/ (strict /\ err # ErrNone)

Step(r, Block(_)) == IF Returns(r.state.strict, r.err) THEN r ELSE Block(r)

\* p.Segments[p.last()].<field> = value, as the URI case does it for the
\* date ranges, the key, the map and the custom tags: no test of count.
AssignOnLast(p, field, value) ==
    IF last(p) \notin DOMAIN p.Segments \/ p.Segments[last(p)] = <<>>
    THEN Ret(p, Panic)
    ELSE Ret([p EXCEPT !.Segments[last(p)] =
                  <<[p.Segments[last(p)][1] EXCEPT ![field] = value]>>],
             ErrNone)

\* The tagRange block: the flag stays set when a strict decode returns.
AttachRange(r) ==
    IF ~r.state.tagRange
    THEN r
    ELSE LET a == SetRange(r.p, r.state.limit)
         IN  IF Returns(r.state.strict, a.err)
             THEN DRet(a.p, r.state, a.err)
             ELSE DRet(a.p, [r.state EXCEPT !.tagRange = FALSE], a.err)

\* The tagSCTE35 block.  With no cue pending (state.scte is nil) the date
\* ranges go to the last segment, whether or not this line appended one; a
\* pending cue goes through SetSCTE35 and leaves the date ranges pending.
AttachSCTE35(p, state) ==
    IF ~state.tagSCTE35
    THEN DRet(p, state, ErrNone)
    ELSE IF state.scte = 0
    THEN LET a == AssignOnLast(p, "SCTE35DateRanges", state.scte35DateRanges)
         IN  IF a.err = Panic
             THEN DRet(p, [state EXCEPT !.tagSCTE35 = FALSE], Panic)
             ELSE DRet(a.p, [state EXCEPT !.tagSCTE35 = FALSE,
                                          !.scte35DateRanges = 0],
                       ErrNone)
    ELSE LET a == SetSCTE35(p, state.scte)
         IN  IF Returns(state.strict, a.err)
             THEN DRet(a.p, [state EXCEPT !.tagSCTE35 = FALSE], a.err)
             ELSE DRet(a.p, [state EXCEPT !.tagSCTE35 = FALSE, !.scte = 0],
                       a.err)

\* The date-range branch assigns no error.
AttachSCTE35Block(r) ==
    LET a == AttachSCTE35(r.p, r.state)
    IN  IF ~r.state.tagSCTE35 THEN r
        ELSE IF r.state.scte = 0 /\ a.err = ErrNone
        THEN DRet(a.p, a.state, r.err)
        ELSE a

\* The tagDiscontinuity block.
AttachDiscontinuity(r) ==
    IF ~r.state.tagDiscontinuity
    THEN r
    ELSE LET a == SetDiscontinuity(r.p)
         IN  DRet(a.p, [r.state EXCEPT !.tagDiscontinuity = FALSE], a.err)

\* The tagProgramDateTime block, entered only when a segment exists.
AttachProgramDateTime(r) ==
    IF ~(r.state.tagProgramDateTime /\ r.p.count > 0)
    THEN r
    ELSE LET a == SetProgramDateTime(r.p, r.state.programDateTime)
         IN  DRet(a.p, [r.state EXCEPT !.tagProgramDateTime = FALSE], a.err)

\* The tagKey block: the first key also becomes the default key.
AttachKey(r) ==
    IF ~r.state.tagKey
    THEN r
    ELSE LET a == AssignOnLast(r.p, "Key", r.state.xkey)
         IN  IF a.err = Panic
             THEN DRet(r.p, r.state, Panic)
             ELSE DRet([a.p EXCEPT !.Key = IF @ = 0 THEN r.state.xkey ELSE @],
                       [r.state EXCEPT !.tagKey = FALSE], r.err)

\* The tagMap block: the first map also becomes the default map.
AttachMap(r) ==
    IF ~r.state.tagMap
    THEN r
    ELSE LET a == AssignOnLast(r.p, "Map", r.state.xmap)
         IN  IF a.err = Panic
             THEN DRet(r.p, r.state, Panic)
             ELSE DRet([a.p EXCEPT !.Map = IF @ = 0 THEN r.state.xmap ELSE @],
                       [r.state EXCEPT !.tagMap = FALSE], r.err)

\* The tagCustom block.
AttachCustom(r) ==
    IF ~r.state.tagCustom
    THEN r
    ELSE LET a == AssignOnLast(r.p, "Custom", r.state.custom)
         IN  IF a.err = Panic
             THEN DRet(r.p, r.state, Panic)
             ELSE DRet(a.p, [r.state EXCEPT !.tagCustom = FALSE,
                                            !.custom = 0], r.err)

\* The URI case: the tagInf block returns its error in either mode; the
\* blocks of the pending tags follow in the order of the code.
DecodeURI(p, state, uri) ==
    LET r == DecodeSegment(p, state, uri)
    IN  IF r.err # ErrNone
        THEN r
        ELSE Step(Step(Step(Step(Step(Step(AttachRange(r),
                 AttachSCTE35Block), AttachDiscontinuity),
                 AttachProgramDateTime), AttachKey), AttachMap), AttachCustom)

\* The EXTINF case: val is the duration as written, or one of the
\* malformed forms.
DecodeEXTINF(p, state, val) ==
    LET s1 == [state EXCEPT !.tagInf = TRUE, !.listType = "MEDIA"]
    IN  CASE val = NoDuration ->
                DRet(p, s1, IF state.strict THEN ErrParse ELSE ErrNone)
          [] val = EmptyDuration -> DRet(p, [s1 EXCEPT !.title = 0], ErrNone)
          [] val = BadNumber ->
                DRet(p, [s1 EXCEPT !.duration = 0, !.title = 0], ErrParse)
          [] OTHER ->
                DRet(p, [s1 EXCEPT
                            !.duration = ParseDuration(DurationPart(val)),
                            !.title = TitlePart(val)],
                     ErrNone)

\* A line of a custom segment tag (a decoder for it is registered) is
\* taken before the switch, which has no case for it.
decodeLineOfMediaPlaylist(p, state, line) ==
    CASE line.tag = "CUSTOM" ->
            DRet(p, [state EXCEPT !.tagCustom = TRUE, !.custom = line.val],
                 ErrNone)
      [] ~state.tagInf /\ line.tag = "EXTINF" ->
            DecodeEXTINF(p, state, line.val)
      [] line.tag = "URI" -> DecodeURI(p, state, line.val)
      [] line.tag = "EXT-X-KEY" ->
            DRet(p, [state EXCEPT !.listType = "MEDIA", !.xkey = line.val,
                                  !.tagKey = TRUE], ErrNone)
      [] line.tag = "EXT-X-MAP" ->
            DRet(p, [state EXCEPT !.listType = "MEDIA", !.xmap = line.val,
                                  !.tagMap = TRUE], ErrNone)
      [] ~state.tagProgramDateTime /\ line.tag = "EXT-X-PROGRAM-DATE-TIME" ->
            DRet(p, [state EXCEPT !.tagProgramDateTime = TRUE,
                                  !.listType = "MEDIA",
                                  !.programDateTime = line.val], ErrNone)
      [] ~state.tagRange /\ line.tag = "EXT-X-BYTERANGE" ->
            DRet(p, [state EXCEPT !.tagRange = TRUE, !.listType = "MEDIA",
                                  !.limit = line.val], ErrNone)
      [] ~state.tagSCTE35 /\ line.tag = "EXT-SCTE35" ->
            DRet(p, [state EXCEPT !.tagSCTE35 = TRUE, !.listType = "MEDIA",
                                  !.scte = line.val], ErrNone)
      [] ~state.tagDiscontinuity /\ line.tag = "EXT-X-DISCONTINUITY" ->
            DRet(p, [state EXCEPT !.tagDiscontinuity = TRUE,
                                  !.listType = "MEDIA"], ErrNone)
      [] line.tag = "EXTM3U" ->
            DRet(p, [state EXCEPT !.m3u = TRUE], ErrNone)
      [] line.tag = "EXT-X-ENDLIST" ->
            DRet([p EXCEPT !.Closed = TRUE],
                 [state EXCEPT !.listType = "MEDIA"], ErrNone)
      [] line.tag = "EXT-X-VERSION" ->
            IF line.val = BadNumber
            THEN DRet(p, state, ErrParse)
            ELSE DRet([p EXCEPT !.ver = line.val], state, ErrNone)
      [] line.tag = "EXT-X-TARGETDURATION" ->
            IF line.val = BadNumber
            THEN DRet(p, [state EXCEPT !.listType = "MEDIA"], ErrParse)
            ELSE DRet([p EXCEPT !.TargetDuration = line.val],
                      [state EXCEPT !.listType = "MEDIA"], ErrNone)
      [] line.tag = "EXT-X-MEDIA-SEQUENCE" ->
            IF line.val = BadNumber
            THEN DRet(p, [state EXCEPT !.listType = "MEDIA"], ErrParse)
            ELSE DRet([p EXCEPT !.SeqNo = line.val],
                      [state EXCEPT !.listType = "MEDIA"], ErrNone)
      [] line.tag = "EXT-X-PLAYLIST-TYPE" ->
            IF line.val = 0
            THEN DRet(p, [state EXCEPT !.listType = "MEDIA"], ErrParse)
            ELSE DRet([p EXCEPT !.MediaType = IF line.val \in {EVENT, VOD}
                                              THEN line.val ELSE @],
                      [state EXCEPT !.listType = "MEDIA"], ErrNone)
      [] line.tag = "EXT-X-DEFINE" ->
            IF line.val = BadDefine
            THEN DRet(p, state, ErrParse)
            ELSE DRet([p EXCEPT !.Defines = AppendDefine(@, line.val)],
                      state, ErrNone)
      [] line.tag = "EXT-X-DATERANGE" ->
            IF line.val = BadNumber
            THEN DRet(p, state, ErrParse)
            ELSE IF line.val = 1
            THEN DRet(p, [state EXCEPT !.tagSCTE35 = TRUE,
                                       !.scte35DateRanges = @ + 1],
                      ErrNone)
            ELSE DRet(p, state, ErrNone)
      [] OTHER -> DRet(p, state, ErrNone)

\* What MediaPlaylist.decode returns at the end of the input.
DecodeResult(state) ==
    IF state.strict /\ ~state.m3u THEN ErrExtM3UAbsent
    ELSE IF state.scte35DateRanges > 0 THEN ErrDanglingSCTE35DateRange
    ELSE ErrNone

\* The master playlist, as far as the type detection needs it.
\* A variant, as far as the model needs it: its alternatives and whether
\* REQ-VIDEO-LAYOUT is given.
NewVariant(alternatives, reqVideoLayout) ==
    [Alternatives |-> alternatives, ReqVideoLayout |-> reqVideoLayout]

\* Alternatives counts the EXT-X-MEDIA lines a decode has read
\* (state.alternatives).
NewMasterPlaylist ==
    [Variants |-> <<>>, Alternatives |-> 0, Defines |-> <<>>, ver |-> minVer,
     buf |-> <<>>]

\* Faulty variant: a well-formed EXT-X-STREAM-INF does not decide the type.
decodeLineOfMasterPlaylist_NoType(m, state, line) ==
    CASE line.tag = "EXTM3U" ->
            DRet(m, [state EXCEPT !.m3u = TRUE], ErrNone)
      [] line.tag = "EXT-X-MEDIA" ->
            IF line.val = BadNumber
            THEN DRet(m, [state EXCEPT !.listType = "MASTER"], ErrParse)
            ELSE DRet([m EXCEPT !.Alternatives = @ + 1],
                      [state EXCEPT !.listType = "MASTER"], ErrNone)
      [] ~state.tagStreamInf /\ line.tag = "EXT-X-STREAM-INF" ->
            IF line.val = BadNumber
            THEN DRet(m, [state EXCEPT !.tagStreamInf = TRUE,
                                       !.listType = "MASTER"], ErrParse)
            ELSE DRet([m EXCEPT !.Variants = Append(@, NewVariant(<<>>, FALSE))],
                      [state EXCEPT !.tagStreamInf = TRUE], ErrNone)
      [] state.tagStreamInf /\ line.tag = "URI" ->
            DRet(m, [state EXCEPT !.tagStreamInf = FALSE], ErrNone)
      [] line.tag = "EXT-X-DEFINE" ->
            IF line.val \in {BadDefine, "IMPORT"}
            THEN DRet(m, state, ErrParse)
            ELSE DRet([m EXCEPT !.Defines = AppendDefine(@, line.val)],
                      state, ErrNone)
      [] OTHER -> DRet(m, state, ErrNone)

decodeLineOfMasterPlaylist(m, state, line) ==
    CASE line.tag = "EXTM3U" ->
            DRet(m, [state EXCEPT !.m3u = TRUE], ErrNone)
      [] line.tag = "EXT-X-MEDIA" ->
            IF line.val = BadNumber
            THEN DRet(m, [state EXCEPT !.listType = "MASTER"], ErrParse)
            ELSE DRet([m EXCEPT !.Alternatives = @ + 1],
                      [state EXCEPT !.listType = "MASTER"], ErrNone)
      [] ~state.tagStreamInf /\ line.tag = "EXT-X-STREAM-INF" ->
            IF line.val = BadNumber
            THEN DRet(m, [state EXCEPT !.tagStreamInf = TRUE,
                                       !.listType = "MASTER"], ErrParse)
            ELSE DRet([m EXCEPT !.Variants = Append(@, NewVariant(<<>>, FALSE))],
                      [state EXCEPT !.tagStreamInf = TRUE,
                                    !.listType = "MASTER"], ErrNone)
      [] state.tagStreamInf /\ line.tag = "URI" ->
            DRet(m, [state EXCEPT !.tagStreamInf = FALSE], ErrNone)
      [] line.tag = "EXT-X-DEFINE" ->
            IF line.val \in {BadDefine, "IMPORT"}
            THEN DRet(m, state, ErrParse)
            ELSE DRet([m EXCEPT !.Defines = AppendDefine(@, line.val)],
                      state, ErrNone)
      [] OTHER -> DRet(m, state, ErrNone)

\* What the auto-detecting decode returns: which playlist, the list type
\* and the error.
Result(playlist, listType, err) ==
    [playlist |-> playlist, listType |-> listType, err |-> err]

NoResult == Result("none", "none", ErrNone)

AutoIdle ==
    [active |-> FALSE, strict |-> FALSE, master |-> NewMasterPlaylist,
     input |-> <<>>, fed |-> <<>>, result |-> NoResult, text |-> <<>>]

(***************************************************************************)
(* The multivariant playlist and the version calculation.  A string that   *)
(* is compared or joined is a sequence of byte values.                     *)
(***************************************************************************)
\* Faulty variant: with alternatives the version is set to 4.
MasterAppend_SetsFour(m, params) ==
    [m EXCEPT !.Variants = Append(@, params),
              !.ver = IF Len(params.Alternatives) > 0 THEN 4 ELSE m.ver,
              !.buf = <<>>]

\* MasterPlaylist.Append; uri and chunklist play no part in the model.
MasterAppend(m, params) ==
    [m EXCEPT !.Variants = Append(@, params),
              !.ver = IF Len(params.Alternatives) > 0
                      THEN updateVersion(m.ver, 4) ELSE m.ver,
              !.buf = <<>>]

MasterSetVersion(m, v) == [m EXCEPT !.ver = v]

updateMin(v, newVer) == IF newVer <= v THEN v ELSE newVer

\* strings.HasPrefix(alt.InstreamId, "SERVICE"), on the ids of the model.
HasPrefixSERVICE(id) == id \in {"SERVICE1"}

\* The bytes of "AUDIO" and of "CLOSED-CAPTIONS".
AUDIO == <<65, 85, 68, 73, 79>>
CLOSEDCAPTIONS ==
    <<67, 76, 79, 83, 69, 68, 45, 67, 65, 80, 84, 73, 79, 78, 83>>

\* The alternatives of all variants.
AllAlternatives(m) ==
    UNION {{v.Alternatives[j] : j \in DOMAIN v.Alternatives} :
              v \in {m.Variants[i] : i \in DOMAIN m.Variants}}

\* MasterPlaylist.CalcMinVersion.
\* The byte-wise order of Go strings (sort.Strings).
RECURSIVE StrLess(_, _)
StrLess(a, b) ==
    IF b = <<>> THEN FALSE
    ELSE IF a = <<>> THEN TRUE
    ELSE IF Head(a) # Head(b) THEN Head(a) < Head(b)
    ELSE StrLess(Tail(a), Tail(b))

Dash == 45

\* fmt.Sprintf("%s-%s-%s-%s", alt.GroupId, alt.Type, alt.Name, alt.Language)
AlternativeKey(alt) ==
    alt.GroupId \o <<Dash>> \o alt.Type \o <<Dash>> \o alt.Name
        \o <<Dash>> \o alt.Language

\* Every alternative of every variant, in the order the loops visit them.
RECURSIVE AlternativesInOrder(_, _)
AlternativesInOrder(m, i) ==
    IF i > Len(m.Variants) THEN <<>>
    ELSE m.Variants[i].Alternatives \o AlternativesInOrder(m, i + 1)

\* added[key]: the first alternative visited that has the key.
FirstWithKey(alts, key) ==
    alts[CHOOSE i \in 1 .. Len(alts) :
            /\ AlternativeKey(alts[i]) = key
            /\ \A j \in 1 .. i - 1 : AlternativeKey(alts[j]) # key]

\* sort.Strings(keys)
RECURSIVE SortStrings(_)
SortStrings(keys) ==
    IF keys = {} THEN <<>>
    ELSE LET least == CHOOSE k \in keys :
                          \A o \in keys \ {k} : StrLess(k, o)
         IN <<least>> \o SortStrings(keys \ {least})

GetAllAlternatives(m) ==
    LET alts == AlternativesInOrder(m, 1)
        keys == SortStrings({AlternativeKey(alts[i]) : i \in 1 .. Len(alts)})
    IN [i \in 1 .. Len(keys) |-> FirstWithKey(alts, keys[i])]

\* The EXT-X-MEDIA lines of MasterPlaylist.Encode, one for each
\* alternative of GetAllAlternatives, then one line for each variant.
MasterEncode(m) ==
    IF m.buf # <<>> THEN m
    ELSE LET alts == GetAllAlternatives(m)
         IN [m EXCEPT !.buf =
                <<Line("EXTM3U", 0), Line("EXT-X-VERSION", m.ver)>>
                \o [i \in 1 .. Len(alts) |-> Line("EXT-X-MEDIA", alts[i])]
                \o [i \in 1 .. Len(m.Variants) |->
                        Line("EXT-X-STREAM-INF", i)]]

MasterCalcMinVersion(m) ==
    LET alts == AllAlternatives(m)
        v1 == IF \E a \in alts : HasPrefixSERVICE(a.InstreamId)
              THEN updateMin(minVer, 7) ELSE minVer
        v2 == IF \E i \in DOMAIN m.Defines : m.Defines[i] = "QUERYPARAM"
              THEN updateMin(v1, 11) ELSE v1
        v3 == IF \E i \in DOMAIN m.Variants : m.Variants[i].ReqVideoLayout
              THEN updateMin(v2, 12) ELSE v2
    IN  IF \E a \in alts : a.Type # CLOSEDCAPTIONS /\ a.InstreamId # ""
        THEN updateMin(v3, 13) ELSE v3

\* The segments the window loop of CalcMinVersion (and of Encode) visits.
RECURSIVE WindowSegments(_, _, _, _)
WindowSegments(p, h, cnt, i) ==
    IF ~((i < p.winsize \/ p.winsize = 0) /\ cnt > 0)
    THEN <<>>
    ELSE LET seg == p.Segments[h]
             h2  == (h + 1) % p.capacity
         IN  IF seg = <<>>
             THEN WindowSegments(p, h2, cnt - 1, i)
             ELSE <<seg[1]>>
                  \o WindowSegments(p, h2, cnt - 1,
                                    IF p.winsize > 0 THEN i + 1 ELSE i)

\* MediaPlaylist.CalcMinVersion.  The playlists of the model have no
\* I-frame flag and no key with a KEYFORMAT, so those tests of the code
\* are never taken (!p.Iframe is true); the first loop stops at the first
\* byte range.
MediaCalcMinVersion(p) ==
    LET segs == WindowSegments(p, p.head, p.count, 0)
        v1 == IF \E k \in DOMAIN segs : segs[k].Limit > 0
              THEN updateMin(minVer, 4) ELSE minVer
        v1m == IF p.Map # 0 THEN updateMin(v1, 5) ELSE v1
        v2s == IF \E k \in DOMAIN segs : segs[k].Map # 0
               THEN updateMin(updateMin(v1m, 5), 6) ELSE v1m
        v2 == IF p.Map # 0 THEN updateMin(v2s, 6) ELSE v2s
        v3 == IF Len(p.Defines) > 0 THEN updateMin(v2, 8) ELSE v2
    IN  IF \E i \in DOMAIN p.Defines : p.Defines[i] = "QUERYPARAM"
        THEN updateMin(v3, 11) ELSE v3

(***************************************************************************)
(* State machine: one action per public call on the playlist.  A decode    *)
(* is a call whose loop takes one step per input line.                     *)
(***************************************************************************)
\* The threads that call Encode on a shared playlist, and the state in
\* which none of them is in a call.
Threads == {1, 2}
NoEncoding == [t \in Threads |-> [pc |-> "idle", ret |-> <<>>,
                                   cache |-> <<>>]]

Init ==
    \E cap \in 0 .. MaxCap, w \in 0 .. MaxCap :
        LET r == NewMediaPlaylist(w, cap)
        IN  /\ r.err = ErrNone
            /\ Segments = r.p.Segments
            /\ capacity = r.p.capacity
            /\ winsize = r.p.winsize
            /\ head = r.p.head
            /\ tail = r.p.tail
            /\ count = r.p.count
            /\ SeqNo = r.p.SeqNo
            /\ Closed = r.p.Closed
            /\ TargetDuration = r.p.TargetDuration
            /\ targetDurLocked = r.p.targetDurLocked
            /\ ver = r.p.ver
            /\ Key = r.p.Key
            /\ buf = r.p.buf
            /\ MediaType = r.p.MediaType
            /\ Defines = r.p.Defines
        /\ Map = r.p.Map
            /\ master = NewMasterPlaylist
            /\ auto = AutoIdle
            /\ lastOp = "NewMediaPlaylist"
            /\ lastErr = ErrNone
            /\ lastArgs = <<w, cap>>
            /\ appended = <<>>
            /\ decoding = <<>>
            /\ encoding = NoEncoding

\* The next unused segment name: one per append call made so far.
NextURI == Len(appended)

\* A playlist is used by one thread: no call starts while a decode runs
\* or while the threads that share it for encoding are at work.
Idle == decoding = <<>> /\ encoding = NoEncoding

\* A call returns; args are the arguments a later reading of the call needs.
ReturnedWith(op, err, args) ==
    /\ lastOp' = op
    /\ lastErr' = err
    /\ lastArgs' = args
    /\ UNCHANGED <<decoding, auto, master, encoding>>

Returned(op, err) ==
    ReturnedWith(op, err, <<>>)

\* History of the append calls, with the version declared at the call.
Record(r, duration) ==
    appended' = Append(appended, [URI |-> NextURI, Duration |-> duration,
                                  ver |-> ver, err |-> r.err])

DoAppendOf(durations) ==
    \E d \in durations :
        LET r == MediaAppend(Self, NextURI, d, 0)
        IN  /\ Len(appended) < MaxSegs
            /\ Idle
            /\ Install(r.p)
            /\ Returned("Append", r.err)
            /\ Record(r, d)

\* The caller's segment carries a SeqId of its own, which the call replaces.
DoAppend == DoAppendOf(Durations)

\* Append of a segment of the one duration 1.5 s.
DoAppendPlain == DoAppendOf({15})

DoAppendSegment ==
    \E d \in Durations :
        LET seg == [NewSegment(NextURI, d, 0) EXCEPT !.SeqId = 9]
            r   == AppendSegment(Self, seg)
        IN  /\ Len(appended) < MaxSegs
            /\ Idle
            /\ Install(r.p)
            /\ Returned("AppendSegment", r.err)
            /\ Record(r, d)

DoRemove ==
    LET r == Remove(Self)
    IN  /\ Idle
        /\ Install(r.p)
        /\ Returned("Remove", r.err)
        /\ UNCHANGED appended

DoSlide ==
    \E d \in Durations :
        LET r == Slide(Self, NextURI, d, 0)
        IN  /\ Len(appended) < MaxSegs
            /\ Idle
            /\ Install(r.p)
            /\ Returned("Slide", IF r.err = Panic THEN Panic ELSE ErrNone)
            /\ Record(r, d)

\* Close on a cached encoding lengthens the cache: the guard bounds it.
DoClose ==
    /\ Cardinality({i \in DOMAIN buf : buf[i].tag = "EXT-X-ENDLIST"}) < MaxClose
    /\ Idle
    /\ Install(Close(Self))
    /\ Returned("Close", ErrNone)
    /\ UNCHANGED appended

\* NewMediaPlaylist is called again: on success the caller goes on with the
\* new playlist, on failure (nil is returned) with the one it had.
DoNewMediaPlaylist ==
    \E w \in 0 .. MaxCap + 1, cap \in 0 .. MaxCap :
        LET r == NewMediaPlaylist(w, cap)
        IN  /\ Idle
            /\ Install(IF r.err = ErrNone THEN r.p ELSE Self)
            /\ ReturnedWith("NewMediaPlaylist", r.err, <<w, cap>>)
            /\ appended' = IF r.err = ErrNone THEN <<>> ELSE appended

DoSetWinSize ==
    \E w \in 0 .. MaxCap + 1 :
        LET r == SetWinSize(Self, w)
        IN  /\ Idle
            /\ Install(r.p)
            /\ ReturnedWith("SetWinSize", r.err, <<w>>)
            /\ UNCHANGED appended

DoSetTargetDuration ==
    \E d \in TargetDurations :
        /\ Idle
        /\ Install(SetTargetDuration(Self, d))
        /\ Returned("SetTargetDuration", ErrNone)
        /\ UNCHANGED appended

DoSetVersion ==
    \E v \in Versions :
        /\ Idle
        /\ Install(SetVersion(Self, v))
        /\ Returned("SetVersion", ErrNone)
        /\ UNCHANGED appended

DoSetKey ==
    \E k \in Keys, kf \in BOOLEAN :
        LET r == SetKey(Self, k, kf)
        IN  /\ Idle
            /\ Install(r.p)
            /\ Returned("SetKey", r.err)
            /\ UNCHANGED appended

DoEncode ==
    /\ Idle
    /\ Install(Encode(Self))
    /\ Returned("Encode", ErrNone)
    /\ UNCHANGED appended

(***************************************************************************)
(* Encode called by two threads on one playlist.  No mutator runs while a  *)
(* thread is in Encode (the callers hold a read lock), but nothing orders  *)
(* the threads' accesses to p.buf: every write to the buffer is a step     *)
(* that the other thread's steps may precede or follow.                    *)
(***************************************************************************)
\* The cache as it was when the first of the running calls began: what
\* buf holds if no call runs.
CacheAtStart ==
    IF \A u \in Threads : encoding[u].pc = "idle"
    THEN buf
    ELSE LET u == CHOOSE u \in Threads : encoding[u].pc # "idle"
         IN  encoding[u].cache

EncodeStep(t, pc, ret, b) ==
    /\ Install([Self EXCEPT !.buf = b])
    /\ encoding' = [encoding EXCEPT ![t] = [pc |-> pc, ret |-> ret,
                                            cache |-> CacheAtStart]]
    /\ UNCHANGED <<appended, decoding, auto, master, lastOp, lastErr,
                   lastArgs>>

\* if p.buf.Len() > 0 { return &p.buf }
EncodeTestCache ==
    \E t \in Threads :
        /\ decoding = <<>>
        /\ encoding[t].pc = "idle"
        /\ IF Len(buf) > 0
           THEN EncodeStep(t, "returned", buf, buf)
           ELSE EncodeStep(t, "header", <<>>, buf)

\* The writes of the header tags.
EncodeWriteHeader ==
    \E t \in Threads :
        /\ encoding[t].pc = "header"
        /\ EncodeStep(t, "segments", <<>>, buf \o EncodeHeader(Self))

\* The writes of the segment loop and of the end tag; return &p.buf.
EncodeWriteSegments ==
    \E t \in Threads :
        LET b == buf \o EncodeSegments(Self, head, count, 0)
                     \o (IF Closed THEN <<Line("EXT-X-ENDLIST", 0)>>
                         ELSE <<>>)
        IN  /\ encoding[t].pc = "segments"
            /\ EncodeStep(t, "returned", b, b)

\* Both callers have their buffers and release the lock.
EncodeJoin ==
    /\ \A t \in Threads : encoding[t].pc = "returned"
    /\ encoding' = NoEncoding
    /\ lastOp' = "Encode"
    /\ lastErr' = ErrNone
    /\ lastArgs' = <<>>
    /\ UNCHANGED <<decoding, auto, master, appended>>
    /\ Install(Self)

\* What Encode returns when the calls run one after the other: the text
\* of the first call, which the later ones find in the cache.
SequentialEncoding == Encode([Self EXCEPT !.buf = CacheAtStart]).buf

NextConcurrent ==
    \/ DoAppendPlain
    \/ DoRemove
    \/ DoClose
    \/ EncodeTestCache
    \/ EncodeWriteHeader
    \/ EncodeWriteSegments
    \/ EncodeJoin

SpecConcurrent == Init /\ [][NextConcurrent]_vars

\* p.Encode() is called again, directly after p.Encode() has returned.
DoEncodeAgain ==
    /\ Idle
    /\ lastOp = "Encode"
    /\ Install(Encode(Self))
    /\ ReturnedWith("Encode", ErrNone, <<2>>)
    /\ UNCHANGED appended

DoSetDiscontinuity ==
    LET r == SetDiscontinuity(Self)
    IN  /\ Idle
        /\ Install(r.p)
        /\ Returned("SetDiscontinuity", r.err)
        /\ UNCHANGED appended

DoSetMap ==
    LET r == SetMap(Self, 1)
    IN  /\ Idle
        /\ Install(r.p)
        /\ Returned("SetMap", r.err)
        /\ UNCHANGED appended

DoSetDefaultMap ==
    /\ Idle
    /\ Install(SetDefaultMap(Self, 1))
    /\ Returned("SetDefaultMap", ErrNone)
    /\ UNCHANGED appended

DoSetRange ==
    LET r == SetRange(Self, 1)
    IN  /\ Idle
        /\ Install(r.p)
        /\ Returned("SetRange", r.err)
        /\ UNCHANGED appended

DoSetSCTE35 ==
    LET r == SetSCTE35(Self, 1)
    IN  /\ Idle
        /\ Install(r.p)
        /\ Returned("SetSCTE35", r.err)
        /\ UNCHANGED appended

DoSetProgramDateTime ==
    LET r == SetProgramDateTime(Self, 1)
    IN  /\ Idle
        /\ Install(r.p)
        /\ Returned("SetProgramDateTime", r.err)
        /\ UNCHANGED appended

DoSetCustomSegmentTag ==
    LET r == SetCustomSegmentTag(Self, 1)
    IN  /\ Idle
        /\ Install(r.p)
        /\ Returned("SetCustomSegmentTag", r.err)
        /\ UNCHANGED appended

\* The variables of the media playlist and of its calls.
MediaVars ==
    <<Segments, capacity, winsize, head, tail, count, SeqNo, Closed,
      TargetDuration, targetDurLocked, ver, Key, buf, MediaType, Defines, Map,
      appended, decoding, auto, encoding>>

\* A call on the multivariant playlist returns.
MasterReturned(op, args) ==
    /\ lastOp' = op
    /\ lastErr' = ErrNone
    /\ lastArgs' = args
    /\ UNCHANGED MediaVars

MaxVariants == 2
MaxDefines == 1

\* An alternative rendition: the four fields of its key and INSTREAM-ID.
NewAlternative(groupId, type, name, language, instreamId) ==
    [GroupId |-> groupId, Type |-> type, Name |-> name,
     Language |-> language, InstreamId |-> instreamId]

\* m.Append(uri, chunklist, params) with the alternatives of one of the
\* given lists.
DoMasterAppendOf(altLists, layouts) ==
    \E alts \in altLists, req \in layouts :
        /\ Idle
        /\ Len(master.Variants) < MaxVariants
        /\ master' = MasterAppend(master, NewVariant(alts, req))
        /\ MasterReturned("MasterAppend", <<Len(alts)>>)

\* Alternatives that differ in what the version calculation reads.
VersionAlternatives ==
    {NewAlternative(<<97>>, AUDIO, <<120>>, <<>>, ""),
     NewAlternative(<<97>>, AUDIO, <<120>>, <<>>, "SERVICE1"),
     NewAlternative(<<97>>, CLOSEDCAPTIONS, <<120>>, <<>>, "CC1")}

DoMasterAppendForVersion ==
    DoMasterAppendOf({<<>>} \cup {<<a>> : a \in VersionAlternatives},
                     BOOLEAN)

\* An EXT-X-DEFINE of the multivariant playlist (IMPORT is not allowed
\* there).
DoMasterAppendDefine ==
    \E type \in {"VALUE", "QUERYPARAM"} :
        /\ Idle
        /\ Len(master.Defines) < MaxDefines
        /\ master' = [master EXCEPT !.Defines = AppendDefine(@, type)]
        /\ MasterReturned("MasterAppendDefine", <<>>)

\* An EXT-X-DEFINE of the media playlist.
DoAppendDefine ==
    \E type \in {"VALUE", "IMPORT", "QUERYPARAM"} :
        /\ Idle
        /\ Len(Defines) < MaxDefines
        /\ Install([Self EXCEPT !.Defines = AppendDefine(@, type)])
        /\ Returned("AppendDefine", ErrNone)
        /\ UNCHANGED appended

DoMasterSetVersion ==
    \E v \in Versions :
        /\ Idle
        /\ master' = MasterSetVersion(master, v)
        /\ MasterReturned("MasterSetVersion", <<v>>)

\* The lines a decoded input is made of.
InputLines ==
    {Line("EXTM3U", 0), Line("URI", NextURI), Line("EXT-X-ENDLIST", 0),
     Line("EXT-X-TARGETDURATION", 2), Line("EXT-X-MEDIA-SEQUENCE", 7)}
    \cup {Line("EXTINF", FormatDuration(d)) : d \in Durations}

\* p.Decode / p.DecodeFrom is called: state := new(decodingState).
DecodeBegin ==
    \E strict \in BOOLEAN :
        /\ Idle
        /\ decoding' = <<NewDecodingState(strict)>>
        /\ lastArgs' = <<>>
        /\ UNCHANGED <<master, encoding>>
        /\ lastOp' = "DecodeBegin"
        /\ lastErr' = ErrNone
        /\ auto' = [AutoIdle EXCEPT !.strict = strict]
        /\ UNCHANGED <<Segments, capacity, winsize, head, tail, count, SeqNo,
                       Closed, TargetDuration, targetDurLocked, ver, Key, buf,
                       appended, MediaType, Defines, Map>>

\* One iteration of the loop of decode: in strict mode, and on a panic, the
\* call ends at the first error.
\* Faulty variant: the loop goes on after an error in strict mode.
Stops_PanicOnly(strict, err) == err = Panic

\* The loop of a decode ends at a line whose parser returns an error in
\* strict mode; a panic ends the call in either mode.
Stops(strict, err) == err = Panic \/ (strict /\ err # ErrNone)

\* A logged call keeps the lines it has read (auto.input).
DecodeLineWithin(lines, logged, maxSegs) ==
    \E line \in lines :
        LET state  == decoding[1]
            r      == decodeLineOfMediaPlaylist(Self, state, line)
            isSeg  == line.tag = "URI" /\ state.tagInf
            ends   == Stops(state.strict, r.err)
        IN  /\ decoding # <<>>
            /\ ~auto.active
            /\ isSeg => Len(appended) < maxSegs
            /\ logged => Len(auto.input) < MaxLines
            /\ auto' = IF logged THEN [auto EXCEPT !.input = Append(@, line)]
                                 ELSE auto
            /\ Install(r.p)
            /\ decoding' = IF ends THEN <<>> ELSE <<r.state>>
            /\ lastArgs' = <<>>
            /\ UNCHANGED <<master, encoding>>
            /\ lastOp' = IF ends THEN "Decode" ELSE "decodeLine"
            /\ lastErr' = r.err
            /\ appended' = IF isSeg
                           THEN Append(appended,
                                       [URI |-> line.val,
                                        Duration |-> state.duration,
                                        ver |-> ver, err |-> r.err])
                           ELSE appended

DecodeLineOf(lines, logged) == DecodeLineWithin(lines, logged, MaxSegs)

DecodeLine == DecodeLineOf(InputLines, FALSE)

\* The lines of an input that holds segments only.
SegmentInputLines ==
    {Line("EXTM3U", 0), Line("URI", NextURI)}
    \cup {Line("EXTINF", FormatDuration(d)) : d \in Durations}

DecodeSegmentLine == DecodeLineOf(SegmentInputLines, FALSE)

\* The lines of an input of segments of one duration, long enough to fill
\* an extended ring again.
MaxExtendSegs == 6

ExtendInputLines == {Line("EXTINF", FormatDuration(15)), Line("URI", NextURI)}

DecodeExtendLine == DecodeLineWithin(ExtendInputLines, FALSE, MaxExtendSegs)

\* The lines of a media playlist input, well-formed and malformed.
MediaInputLines ==
    {Line("EXTM3U", 0), Line("URI", NextURI),
     Line("EXTINF", FormatDuration(15)), Line("EXTINF", BadNumber),
     Line("EXTINF", NoDuration), Line("EXTINF", EmptyDuration),
     Line("EXT-X-DATERANGE", 1)}

DecodeMediaLine == DecodeLineOf(MediaInputLines, TRUE)

\* The input ends.
DecodeEnd ==
    /\ decoding # <<>>
    /\ ~auto.active
    /\ decoding' = <<>>
    /\ lastArgs' = <<>>
    /\ UNCHANGED <<master, encoding>>
    /\ lastOp' = "Decode"
    /\ lastErr' = DecodeResult(decoding[1])
    /\ UNCHANGED <<Segments, capacity, winsize, head, tail, count, SeqNo,
                   Closed, TargetDuration, targetDurLocked, ver, Key, buf,
                   appended, MediaType, Defines, Map, auto>>

(***************************************************************************)
(* The auto-detecting decode (package function decode): every line goes    *)
(* to the master parser unless the type is MEDIA, then to the media parser *)
(* unless the type is MASTER.                                              *)
(***************************************************************************)
\* The lines of any input; a URI is named after its line number.
AnyInputLines(uri) ==
    {Line("BLANK", 0), Line("EXTM3U", 0), Line("URI", uri),
     Line("EXT-X-STREAM-INF", 1), Line("EXT-X-STREAM-INF", BadNumber),
     Line("EXT-X-MEDIA", 1),
     Line("EXTINF", FormatDuration(15)), Line("EXTINF", BadNumber),
     Line("EXTINF", NoDuration), Line("EXTINF", EmptyDuration),
     Line("EXT-X-TARGETDURATION", 2), Line("EXT-X-TARGETDURATION", BadNumber),
     Line("EXT-X-ENDLIST", 0), Line("EXT-X-PLAYLIST-TYPE", EVENT),
     Line("EXT-X-PLAYLIST-TYPE", VOD), Line("EXT-X-DATERANGE", 1)}

AutoDecodeBegin ==
    \E strict \in BOOLEAN :
        /\ Idle
        /\ Install(NewMediaPlaylist(AutoWinSize, AutoCapacity).p)
        /\ decoding' = <<NewDecodingState(strict)>>
        /\ auto' = [AutoIdle EXCEPT !.active = TRUE, !.strict = strict]
        /\ lastArgs' = <<>>
        /\ UNCHANGED <<master, encoding>>
        /\ lastOp' = "AutoDecodeBegin"
        /\ lastErr' = ErrNone
        /\ appended' = <<>>

\* The bytes Encode has written are handed to the auto-detecting decode in
\* strict mode, as the read-write test does with a file.
DecodeTextBegin ==
    /\ Idle
    /\ lastOp = "Encode"
    /\ auto.text = <<>>
    /\ Install(NewMediaPlaylist(AutoWinSize, AutoCapacity).p)
    /\ decoding' = <<NewDecodingState(TRUE)>>
    /\ auto' = [AutoIdle EXCEPT !.active = TRUE, !.strict = TRUE,
                                !.text = buf]
    /\ lastArgs' = <<>>
    /\ UNCHANGED <<master, encoding>>
    /\ lastOp' = "AutoDecodeBegin"
    /\ lastErr' = ErrNone
    /\ appended' = <<>>

\* One iteration of the loop of decode, on a line of the given set.
AutoDecodeLineOf(lines) ==
    \E line \in lines :
        LET state  == decoding[1]
            blank  == line.tag = "BLANK"
            toMaster == ~blank /\ state.listType # "MEDIA"
            r1     == IF toMaster
                      THEN decodeLineOfMasterPlaylist(auto.master, state, line)
                      ELSE DRet(auto.master, state, ErrNone)
            stop1  == toMaster /\ Stops(state.strict, r1.err)
            toMedia == ~blank /\ ~stop1 /\ r1.state.listType # "MASTER"
            r2     == IF toMedia
                      THEN decodeLineOfMediaPlaylist(Self, r1.state, line)
                      ELSE DRet(Self, r1.state, ErrNone)
            stop2  == toMedia /\ Stops(state.strict, r2.err)
            ends   == stop1 \/ stop2
            res    == IF stop1
                      THEN Result("master", r1.state.listType, r1.err)
                      ELSE IF r2.err = Panic
                      THEN Result("none", r2.state.listType, Panic)
                      ELSE Result("media", r2.state.listType, r2.err)
        IN  /\ decoding # <<>>
            /\ auto.active
            /\ Install(r2.p)
            /\ decoding' = IF ends THEN <<>> ELSE <<r2.state>>
            /\ auto' = [auto EXCEPT
                          !.active = ~ends,
                          !.master = r1.p,
                          !.input = Append(@, line),
                          !.fed = Append(@, [master |-> toMaster,
                                             media |-> toMedia,
                                             listType |-> r2.state.listType]),
                          !.result = IF ends THEN res ELSE @]
            /\ lastArgs' = <<>>
            /\ UNCHANGED <<master, encoding>>
            /\ lastOp' = IF ends THEN "AutoDecode" ELSE "autoDecodeLine"
            /\ lastErr' = IF ends THEN res.err
                           ELSE IF toMedia THEN r2.err ELSE r1.err
            /\ UNCHANGED appended

\* The next line of any input is read.
AutoDecodeLine ==
    /\ auto.text = <<>>
    /\ Len(auto.input) < MaxAutoLines
    /\ AutoDecodeLineOf(AnyInputLines(Len(auto.input) + 1))

\* The next line of the encoded text is read.
DecodeTextLine ==
    /\ Len(auto.input) < Len(auto.text)
    /\ AutoDecodeLineOf({auto.text[Len(auto.input) + 1]})

\* The input ends: what decode returns after its loop.
AutoDecodeEnd ==
    LET state == decoding[1]
        res   == IF state.strict /\ ~state.m3u
                 THEN Result("nil", "none", ErrExtM3UAbsent)
                 ELSE IF state.listType = "MASTER"
                 THEN Result("master", "MASTER", ErrNone)
                 ELSE IF state.listType = "MEDIA"
                 THEN IF state.scte35DateRanges > 0
                      THEN Result("nil", "MEDIA", ErrDanglingSCTE35DateRange)
                      ELSE Result("media", "MEDIA", ErrNone)
                 ELSE Result("nil", state.listType,
                             ErrCannotDetectPlaylistType)
        q     == IF ~(state.strict /\ ~state.m3u) /\ state.listType = "MEDIA"
                    /\ (Closed \/ MediaType = EVENT)
                 THEN SetWinSize(Self, 0).p
                 ELSE Self
    IN  /\ decoding # <<>>
        /\ auto.active
        /\ auto.text # <<>> => Len(auto.input) = Len(auto.text)
        /\ Install(q)
        /\ decoding' = <<>>
        /\ auto' = [auto EXCEPT !.active = FALSE, !.result = res]
        /\ lastArgs' = <<>>
        /\ UNCHANGED <<master, encoding>>
        /\ lastOp' = "AutoDecode"
        /\ lastErr' = res.err
        /\ UNCHANGED appended

(***************************************************************************)
(* Specifications.  Spec: the ring under its mutators.  SpecSlide: a       *)
(* playlist that is only slid.  SpecTarget: the target duration under      *)
(* appends, removals and version changes.  SpecCache: the encoder and its  *)
(* cache under the ring mutators.  SpecTags: the cache under per-segment   *)
(* tags.  SpecDecode: a decode into a playlist with a set target duration. *)
(***************************************************************************)
Next ==
    \/ DoAppend
    \/ DoAppendSegment
    \/ DoRemove
    \/ DoSlide
    \/ DoClose
    \/ DoSetWinSize

Spec == Init /\ [][Next]_vars

NextSlide == DoSlide

SpecSlide == Init /\ [][NextSlide]_vars

NextTarget ==
    \/ DoAppend
    \/ DoRemove
    \/ DoSlide
    \/ DoSetVersion

SpecTarget == Init /\ [][NextTarget]_vars

NextCache ==
    \/ DoAppend
    \/ DoRemove
    \/ DoSlide
    \/ DoClose
    \/ DoSetWinSize
    \/ DoEncode

SpecCache == Init /\ [][NextCache]_vars

NextTags ==
    \/ DoAppend
    \/ DoSetKey
    \/ DoSetDiscontinuity
    \/ DoEncode

SpecTags == Init /\ [][NextTags]_vars

NextDecode ==
    \/ DoSetTargetDuration
    \/ DecodeBegin
    \/ DecodeLine
    \/ DecodeEnd

SpecDecode == Init /\ [][NextDecode]_vars

\* SpecRing: decodes into a playlist that appends and removals have
\* brought to any ring state.
NextRing ==
    \/ DoAppend
    \/ DoRemove
    \/ DecodeBegin
    \/ DecodeSegmentLine
    \/ DecodeEnd

SpecRing == Init /\ [][NextRing]_vars

\* SpecExtend: appends, removals and window changes, and decodes that
\* extend the ring and fill it again.
NextExtend ==
    \/ DoAppend
    \/ DoRemove
    \/ DoSetWinSize
    \/ DecodeBegin
    \/ DecodeExtendLine
    \/ DecodeEnd

SpecExtend == Init /\ [][NextExtend]_vars

\* The number of per-segment tags set on the segments of the ring.
MaxTags == 1

TagsOf(seg) ==
    Cardinality({f \in {"Key", "Map", "Limit", "SCTE", "ProgramDateTime",
                        "Custom"} : seg[f] # 0})
    + (IF seg.Discontinuity THEN 1 ELSE 0)

RECURSIVE TagsUpTo(_)
TagsUpTo(n) ==
    IF n = 0 THEN 0
    ELSE TagsUpTo(n - 1)
         + (IF Segments[n - 1] = <<>> THEN 0 ELSE TagsOf(Segments[n - 1][1]))

TagsSet == TagsUpTo(capacity)

\* A per-segment setter is called, on an empty playlist or while fewer than
\* MaxTags tags are set.
MayTag == count = 0 \/ TagsSet < MaxTags

\* SpecSetters: appends, removals and every per-segment setter.
NextSetters ==
    \/ DoAppendPlain
    \/ DoRemove
    \/ MayTag /\ DoSetKey
    \/ MayTag /\ DoSetMap
    \/ MayTag /\ DoSetRange
    \/ MayTag /\ DoSetSCTE35
    \/ MayTag /\ DoSetDiscontinuity
    \/ MayTag /\ DoSetProgramDateTime
    \/ MayTag /\ DoSetCustomSegmentTag

SpecSetters == Init /\ [][NextSetters]_vars

\* SpecNew: playlists are constructed, filled and given new window sizes.
NextNew ==
    \/ DoNewMediaPlaylist
    \/ DoSetWinSize
    \/ DoAppendPlain
    \/ DoRemove

SpecNew == Init /\ [][NextNew]_vars

\* SpecVersion: both playlists receive what CalcMinVersion looks at.
NextVersion ==
    \/ DoMasterAppendForVersion
    \/ DoMasterAppendDefine
    \/ DoAppendPlain
    \/ MayTag /\ DoSetMap
    \/ DoSetDefaultMap
    \/ DoAppendDefine

SpecVersion == Init /\ [][NextVersion]_vars

\* An audio rendition.
PlainAlternative == NewAlternative(<<97>>, AUDIO, <<120>>, <<>>, "")

\* m.Append with no alternative, one or two.
DoMasterAppendPlain ==
    DoMasterAppendOf({<<>>, <<PlainAlternative>>,
                      <<PlainAlternative, PlainAlternative>>}, {FALSE})

\* Alternatives whose names differ in a space or a dash: "x", "x ",
\* "x-y", and "x" with the language "y-".
RenditionAlternatives ==
    {NewAlternative(<<97>>, AUDIO, <<120>>, <<>>, ""),
     NewAlternative(<<97>>, AUDIO, <<120, 32>>, <<>>, ""),
     NewAlternative(<<97>>, AUDIO, <<120, Dash, 121>>, <<>>, ""),
     NewAlternative(<<97>>, AUDIO, <<120>>, <<121, Dash>>, "")}

\* m.Append with one or two of these alternatives.
DoMasterAppendRenditions ==
    DoMasterAppendOf({<<>>} \cup {<<a>> : a \in RenditionAlternatives}
                        \cup {<<a, b>> : a, b \in RenditionAlternatives},
                     {FALSE})

\* m.Encode()
DoMasterEncode ==
    /\ Idle
    /\ master' = MasterEncode(master)
    /\ MasterReturned("MasterEncode", <<>>)

\* SpecRenditions: variants with alternatives are appended and the
\* multivariant playlist is encoded.
NextRenditions ==
    \/ DoMasterAppendRenditions
    \/ DoMasterEncode

SpecRenditions == Init /\ [][NextRenditions]_vars

\* SpecMaster: variants are appended to a multivariant playlist whose
\* version is set at will.
NextMaster ==
    \/ DoMasterAppendPlain
    \/ DoMasterSetVersion
    \/ DoMasterAppendDefine

SpecMaster == Init /\ [][NextMaster]_vars

\* A per-segment setter is called on the empty playlist, where it fails,
\* and on a playlist of one segment that has no tag yet.
MayTagFirst == count = 0 \/ (count = 1 /\ TagsSet = 0)

\* SpecErrors: every mutator that can return an error, on the empty, the
\* partly filled and the full ring (Append is AppendSegment of a new
\* segment).
NextErrors ==
    \/ DoAppendPlain
    \/ DoRemove
    \/ DoSetWinSize
    \/ MayTagFirst /\ DoSetKey
    \/ MayTagFirst /\ DoSetMap
    \/ MayTagFirst /\ DoSetRange
    \/ MayTagFirst /\ DoSetSCTE35
    \/ MayTagFirst /\ DoSetDiscontinuity
    \/ MayTagFirst /\ DoSetProgramDateTime
    \/ MayTagFirst /\ DoSetCustomSegmentTag

SpecErrors == Init /\ [][NextErrors]_vars

\* SpecEncodeTwice: the encoder is called once or several times in a row
\* between the mutators.
NextEncodeTwice ==
    \/ DoAppendPlain
    \/ DoRemove
    \/ DoClose
    \/ DoEncode
    \/ DoEncodeAgain

SpecEncodeTwice == Init /\ [][NextEncodeTwice]_vars

\* SpecAuto: the auto-detecting decode of any input of up to MaxAutoLines
\* lines.
NextAuto ==
    \/ AutoDecodeBegin
    \/ AutoDecodeLine
    \/ AutoDecodeEnd

SpecAuto == Init /\ [][NextAuto]_vars

\* The lines of an input whose type is detected late: defines stand before
\* the first tag that tells the type.
DetectInputLines(n) ==
    {Line("EXTM3U", 0), Line("URI", n),
     Line("EXT-X-DEFINE", "VALUE"), Line("EXT-X-DEFINE", "IMPORT"),
     Line("EXT-X-DEFINE", BadDefine),
     Line("EXT-X-STREAM-INF", 1), Line("EXT-X-MEDIA", 1),
     Line("EXTINF", FormatDuration(15)), Line("EXTINF", BadNumber),
     Line("EXT-X-TARGETDURATION", 2)}

AutoDecodeDetectLine ==
    /\ auto.text = <<>>
    /\ Len(auto.input) < MaxAutoLines
    /\ AutoDecodeLineOf(DetectInputLines(Len(auto.input) + 1))

\* SpecDetect: the auto-detecting decode of inputs with defines.
NextDetect ==
    \/ AutoDecodeBegin
    \/ AutoDecodeDetectLine
    \/ AutoDecodeEnd

SpecDetect == Init /\ [][NextDetect]_vars

\* MediaPlaylist.decode of the lines k.. of an input, as one computation.
RECURSIVE MediaDecodeFrom(_, _, _, _)
MediaDecodeFrom(in, k, p, state) ==
    IF k > Len(in)
    THEN Ret(p, DecodeResult(state))
    ELSE IF in[k].tag = "BLANK"
    THEN MediaDecodeFrom(in, k + 1, p, state)
    ELSE LET r == decodeLineOfMediaPlaylist(p, state, in[k])
         IN  IF Stops(state.strict, r.err)
             THEN Ret(r.p, r.err)
             ELSE MediaDecodeFrom(in, k + 1, r.p, r.state)

\* A strict MediaPlaylist.Decode of the input into a new playlist like the
\* one the auto-detecting decode makes.
StrictMediaDecode(in) ==
    MediaDecodeFrom(in, 1, NewMediaPlaylist(AutoWinSize, AutoCapacity).p,
                    NewDecodingState(TRUE))

\* MasterPlaylist.decode of the lines k.. of an input.
RECURSIVE MasterDecodeFrom(_, _, _, _)
MasterDecodeFrom(in, k, m, state) ==
    IF k > Len(in)
    THEN Ret(m, IF state.strict /\ ~state.m3u THEN ErrExtM3UAbsent
                                              ELSE ErrNone)
    ELSE IF in[k].tag = "BLANK"
    THEN MasterDecodeFrom(in, k + 1, m, state)
    ELSE LET r == decodeLineOfMasterPlaylist(m, state, in[k])
         IN  IF Stops(state.strict, r.err)
             THEN Ret(r.p, r.err)
             ELSE MasterDecodeFrom(in, k + 1, r.p, r.state)

\* A strict MasterPlaylist.Decode of the input into a new playlist.
StrictMasterDecode(in) ==
    MasterDecodeFrom(in, 1, NewMasterPlaylist, NewDecodingState(TRUE))

\* A decode into a playlist that NewMediaPlaylist has just returned.
DecodeIntoNew == lastOp = "NewMediaPlaylist" /\ DecodeBegin

\* SpecInput: both decoders on any input, lines logged.
NextInput ==
    \/ AutoDecodeBegin
    \/ AutoDecodeLine
    \/ AutoDecodeEnd
    \/ DecodeIntoNew
    \/ DecodeMediaLine
    \/ DecodeEnd

SpecInput == Init /\ [][NextInput]_vars

\* The lines of a media playlist input with every kind of per-segment tag;
\* a tag and a URI are named after their line number.
PendingInputLines(n) ==
    {Line("EXTINF", FormatDuration(15)), Line("URI", n),
     Line("EXT-X-KEY", n), Line("EXT-X-MAP", n), Line("EXT-X-BYTERANGE", n),
     Line("EXT-X-DISCONTINUITY", 0), Line("EXT-X-PROGRAM-DATE-TIME", n),
     Line("EXT-SCTE35", n), Line("EXT-X-DATERANGE", 1), Line("CUSTOM", n)}

DecodePendingLine ==
    DecodeLineOf(PendingInputLines(Len(auto.input) + 1), TRUE)

\* SpecPending: a decode, strict or lax, of any input of segments and
\* per-segment tags into a new playlist.
NextPending ==
    \/ DecodeIntoNew
    \/ DecodePendingLine
    \/ DecodeEnd

SpecPending == Init /\ [][NextPending]_vars

\* The lines of a media playlist input whose EXTINF lines have a title, an
\* empty duration, or neither duration nor comma; a URI is named after its
\* line number.
TitledInputLines(n) ==
    {Line("EXTINF", Titled(FormatDuration(15), 1)),
     Line("EXTINF", FormatDuration(4)),
     Line("EXTINF", EmptyDuration), Line("EXTINF", NoDuration),
     Line("EXTINF", BadNumber), Line("URI", n),
     Line("EXT-X-DISCONTINUITY", 0)}

DecodeTitledLine ==
    DecodeLineOf(TitledInputLines(Len(auto.input) + 1), TRUE)

\* SpecTitles: a decode, strict or lax, of any input of segments with and
\* without durations and titles into a new playlist.
NextTitles ==
    \/ DecodeIntoNew
    \/ DecodeTitledLine
    \/ DecodeEnd

SpecTitles == Init /\ [][NextTitles]_vars

\* SpecRoundTrip: a playlist is built by the mutators and encoded; the text
\* is decoded by the auto-detecting decode and the result encoded again.
NextRoundTrip ==
    \/ auto.text = <<>> /\ DoAppend
    \/ auto.text = <<>> /\ DoRemove
    \/ auto.text = <<>> /\ DoClose
    \/ auto.text = <<>> /\ DoSetTargetDuration
    \/ DoEncode
    \/ DecodeTextBegin
    \/ DecodeTextLine
    \/ AutoDecodeEnd

SpecRoundTrip == Init /\ [][NextRoundTrip]_vars

(***************************************************************************)
(* Properties.                                                             *)
(***************************************************************************)
Min(a, b) == IF a < b THEN a ELSE b
Max(a, b) == IF a > b THEN a ELSE b

RECURSIVE MaxOf(_)
MaxOf(S) == IF S = {} THEN 0
            ELSE LET x == CHOOSE y \in S : TRUE IN Max(x, MaxOf(S \ {x}))

\* The slots of the live segments, oldest first.
LiveSlots == [k \in 1 .. count |-> Segments[(head + k - 1) % capacity]]
NoNilLive == \A k \in 1 .. count : LiveSlots[k] # <<>>
LiveSegs == [k \in 1 .. count |-> LiveSlots[k][1]]
LiveURIs == [k \in 1 .. count |-> LiveSegs[k].URI]
HeadSeqId == Segments[head][1].SeqId

\* The last n elements of a sequence.
LastN(q, n) == SubSeq(q, Len(q) - n + 1, Len(q))

IsURI(l) == l.tag = "URI"
EncodedURIs(b) ==
    LET u == SelectSeq(b, IsURI) IN [k \in 1 .. Len(u) |-> u[k].val]
IsMediaSequence(l) == l.tag = "EXT-X-MEDIA-SEQUENCE"
MediaSequenceOf(b) == SelectSeq(b, IsMediaSequence)[1].val
SeqIdOfURI(u) ==
    LiveSegs[CHOOSE k \in 1 .. count : LiveSegs[k].URI = u].SeqId

\* What Encode writes when nothing is cached.
FreshEncoding == Encode([Self EXCEPT !.buf = <<>>]).buf

Mutators ==
    {"Append", "AppendSegment", "Remove", "Slide", "Close", "SetKey",
     "SetDiscontinuity", "SetTargetDuration", "SetWinSize", "SetVersion"}

\* The appends that succeeded, in call order.
IsOk(c) == c.err = ErrNone
Succeeded == SelectSeq(appended, IsOk)

\* The rounding of a duration under a declared version.
Rounded(d, v) == IF v <= 5 THEN (d + 9) \div 10 ELSE (d + 5) \div 10

\* C1 (as claimed): with winsize > 0, Encode emits exactly the last
\* min(winsize, count) live segments, in append order.
C1_EncodeEmitsLastWindow ==
    (lastOp = "Encode" /\ winsize > 0 /\ NoNilLive)
        => EncodedURIs(buf) = LastN(LiveURIs, Min(winsize, count))

\* C2 (as claimed): every successful mutator leaves the encode cache empty,
\* so that the bytes Encode returns are those of the current state.
C2_MutatorsResetCache ==
    /\ (lastOp \in Mutators /\ lastErr = ErrNone) => buf = <<>>
    /\ lastOp = "Encode" => buf = FreshEncoding

\* C3: on a playlist of capacity >= 1, after any sequence of Append,
\* AppendSegment, Remove, Slide, Close and SetWinSize calls, successful or
\* failing, tail = (head + count) mod capacity.
C3_RingIndices ==
    capacity >= 1 => tail = (head + count) % capacity

\* C3 witness: a full, wrapped ring on which an append has just failed.
C3_Witness ==
    /\ head > 0
    /\ tail = head
    /\ count = capacity
    /\ lastOp \in {"Append", "AppendSegment"}
    /\ lastErr = ErrPlaylistFull

C6_MediaSequenceIsFirstSeqId ==
    (lastOp = "Encode" /\ NoNilLive) =>
        /\ EncodedURIs(buf) # <<>> =>
              MediaSequenceOf(buf) = SeqIdOfURI(EncodedURIs(buf)[1])
        /\ (winsize > 0 /\ count > winsize /\ count = Len(appended)
              /\ ~Closed /\ buf = FreshEncoding) =>
              MediaSequenceOf(buf) = count - winsize

\* C7 (as claimed): once SetTargetDuration has locked it, TargetDuration is
\* changed by no call but another SetTargetDuration.
C7_LockedTargetDurationKept ==
    [][(targetDurLocked /\ lastOp' # "SetTargetDuration")
          => TargetDuration' = TargetDuration]_vars

\* C8 (as claimed): while not locked, TargetDuration is the maximum over
\* the live segments of the duration rounded under the declared version
\* (the version not having changed since the first append).
C8_TracksLiveMaximum ==
    (~targetDurLocked /\ count > 0 /\ NoNilLive
        /\ \A i \in DOMAIN appended : appended[i].ver = ver)
        => TargetDuration =
              MaxOf({Rounded(LiveSegs[k].Duration, ver) : k \in 1 .. count})

\* C8 (amended): while not locked, TargetDuration is the maximum over all
\* segments appended so far, removed ones included, of the duration rounded
\* under the version declared at that append: up if <= 5, to nearest if >= 6.
C8_TracksAppendedMaximum ==
    ~targetDurLocked
        => TargetDuration =
              MaxOf({Rounded(Succeeded[i].Duration, Succeeded[i].ver) :
                        i \in DOMAIN Succeeded})

\* C8 witness: after a removal under version 6 the target duration exceeds
\* what the live segments alone would give.
C8_Witness ==
    /\ ~targetDurLocked
    /\ count > 0
    /\ ver >= 6
    /\ lastOp \in {"Remove", "Slide"}
    /\ TargetDuration >
          MaxOf({Rounded(LiveSegs[k].Duration, ver) : k \in 1 .. count})

\* C9 (as claimed): Append or AppendSegment on a playlist whose count
\* equals its capacity returns ErrPlaylistFull and adds no segment.
C9_FullAppendFails ==
    [][(count = capacity /\ lastOp' \in {"Append", "AppendSegment"})
          => /\ lastErr' = ErrPlaylistFull
             /\ count' = count
             /\ Segments' = Segments]_vars

\* C10: an empty, not closed playlist with 1 <= winsize <= capacity that is
\* only slid holds, after n calls, min(n, winsize) segments, has
\* SeqNo = max(0, n - winsize), and holds the last min(n, winsize) slid
\* segments in the order they were slid.
C10_SlideWindow ==
    LET n == Len(appended)
        k == Min(n, winsize)
    IN  (winsize >= 1 /\ winsize <= capacity /\ ~Closed) =>
            /\ count = k
            /\ SeqNo = Max(0, n - winsize)
            /\ NoNilLive
            /\ \A j \in 1 .. count :
                  /\ LiveSegs[j].URI = appended[n - k + j].URI
                  /\ LiveSegs[j].Duration = appended[n - k + j].Duration
                  /\ LiveSegs[j].SeqId = n - k + j - 1

\* C10 witness: more slides than the window holds, on a ring that wrapped.
C10_Witness ==
    /\ winsize >= 2
    /\ Len(appended) > winsize
    /\ count = winsize
    /\ tail <= head
    /\ head > 0
    /\ lastOp = "Slide"

IsEndList(l) == l.tag = "EXT-X-ENDLIST"
EndListCount(b) == Len(SelectSeq(b, IsEndList))

\* C11 (as claimed): once the playlist is closed, what Encode returns holds
\* exactly one EXT-X-ENDLIST line, whatever was cached when Close was
\* called and however often Close was called.
C11_OneEndList ==
    (lastOp = "Encode" /\ Closed) => EndListCount(buf) = 1

\* C12 (as claimed): a segment decoded into a full ring of any shape is
\* accepted, and the playlist then holds its previous segments, unchanged
\* and in their order, followed by the new one.
C12_ExtendKeepsSegments ==
    [][(decoding # <<>> /\ Len(appended') > Len(appended)
          /\ capacity >= 1 /\ count = capacity /\ NoNilLive)
       => /\ lastErr' = ErrNone
          /\ count' = count + 1
          /\ NoNilLive'
          /\ \A k \in 1 .. count : LiveSegs'[k] = LiveSegs[k]
          /\ LiveSegs'[count + 1].URI = appended'[Len(appended')].URI]_vars

\* The tags of the modelled input at which a parser assigns state.listType.
Discriminators ==
    {"EXT-X-STREAM-INF", "EXT-X-MEDIA", "EXTINF", "EXT-X-TARGETDURATION",
     "EXT-X-ENDLIST", "EXT-X-PLAYLIST-TYPE", "EXT-X-MEDIA-SEQUENCE"}
HasDiscriminator(in) == \E i \in DOMAIN in : in[i].tag \in Discriminators
FirstDiscriminator(in) ==
    LET i == CHOOSE k \in DOMAIN in :
                 /\ in[k].tag \in Discriminators
                 /\ \A l \in 1 .. k - 1 : in[l].tag \notin Discriminators
    IN  in[i].tag

DecodeReturned == lastOp \in {"Decode", "AutoDecode"}

\* Line j of an input is the URI line of a segment: an EXTINF line stands
\* before it, after the previous URI line.
IsSegmentURI(in, j) ==
    /\ in[j].tag = "URI"
    /\ \E k \in 1 .. j - 1 :
          /\ in[k].tag = "EXTINF"
          /\ \A l \in k + 1 .. j - 1 : in[l].tag # "URI"

\* Some SCTE-35 date range of the input is followed by no segment URI line.
HasDanglingDateRange(in) ==
    \E i \in DOMAIN in :
        /\ in[i] = Line("EXT-X-DATERANGE", 1)
        /\ \A j \in i + 1 .. Len(in) : ~IsSegmentURI(in, j)

\* C14 (as claimed): a decode, auto-detecting or into a playlist, strict or
\* lax, ends with ErrDanglingSCTE35DateRange exactly when some SCTE-35
\* date range of its input is followed by no segment URI line.
C14_DanglingExactly ==
    DecodeReturned =>
        (lastErr = ErrDanglingSCTE35DateRange
            <=> HasDanglingDateRange(auto.input))

\* The first non-blank line of an input is #EXTM3U.
IsNonBlank(l) == l.tag # "BLANK"
StartsWithEXTM3U(in) ==
    LET nb == SelectSeq(in, IsNonBlank)
    IN  nb # <<>> /\ nb[1].tag = "EXTM3U"

\* C15 (as claimed): a strict decode of an input whose first non-blank
\* line is not #EXTM3U fails with ErrExtM3UAbsent (unless a line failed to
\* parse before the end of the input was reached).
C15_StrictNeedsEXTM3UFirst ==
    (DecodeReturned /\ auto.strict /\ ~StartsWithEXTM3U(auto.input)
        /\ lastErr \notin {ErrParse, Panic})
        => lastErr = ErrExtM3UAbsent

\* C16: in strict mode a line whose parser returns an error ends the decode
\* call, which returns that error; no later line is processed, and no
\* earlier line had failed.
C16_StrictStopsAtFirstError ==
    [][(decoding # <<>> /\ decoding[1].strict
          /\ Len(auto.input') > Len(auto.input) /\ lastErr' # ErrNone)
       => /\ decoding' = <<>>
          /\ lastOp' \in {"Decode", "AutoDecode"}
          /\ auto'.result.err \in {ErrNone, lastErr'}]_vars

\* C16 witness: a strict decode has returned a parse error at its third
\* line, after it had appended the segment of the first two.
C16_Witness ==
    /\ lastOp = "Decode"
    /\ auto.strict
    /\ lastErr = ErrParse
    /\ Len(auto.input) = 3
    /\ auto.input[3] = Line("EXTINF", BadNumber)
    /\ count = 1

\* The EXTINF line that introduces the segment of URI line j: the first
\* one after the previous URI line.
IntroducingEXTINF(in, j) ==
    LET k == CHOOSE k \in 1 .. j - 1 :
                 /\ in[k].tag = "EXTINF"
                 /\ \A l \in k + 1 .. j - 1 : in[l].tag # "URI"
                 /\ \A l \in 1 .. k - 1 :
                       in[l].tag = "EXTINF" =>
                           \E u \in l + 1 .. k - 1 : in[u].tag = "URI"
    IN  in[k]

\* C17 (as claimed): in lax mode an EXTINF line whose duration is
\* unparsable or missing does not fail the decode, and the segment it
\* introduces has duration 0.
C17_LaxBadDurationIsZero ==
    (~auto.strict /\ NoNilLive) =>
        /\ DecodeReturned => lastErr # ErrParse
        /\ \A s \in 1 .. count : \A j \in DOMAIN auto.input :
              (/\ auto.input[j] = Line("URI", LiveSegs[s].URI)
               /\ IsSegmentURI(auto.input, j)
               /\ IntroducingEXTINF(auto.input, j).val
                     \in {BadNumber, NoDuration, EmptyDuration})
              => LiveSegs[s].Duration = 0

\* C18 (as claimed): the media playlist returned by an auto-detecting decode
\* has winsize 0 whenever it is VoD or Event, that is, whenever its input
\* declared EXT-X-PLAYLIST-TYPE VOD or EVENT or ended it with EXT-X-ENDLIST.
C18_VodEventShowAll ==
    (/\ lastOp = "AutoDecode"
     /\ auto.result = Result("media", "MEDIA", ErrNone)
     /\ (Closed \/ MediaType \in {EVENT, VOD}))
    => winsize = 0

\* C19 (as claimed): no mutator panics; on every playlist of
\* NewMediaPlaylist, capacity 0 included, and in every ring state a mutator
\* either succeeds or returns an error.
C19_MutatorsNeverPanic ==
    lastOp \in Mutators => lastErr # Panic

\* C20 (as claimed): the strict auto-detecting decode of a text that Encode
\* has written succeeds with a media playlist, and Encode of that playlist
\* writes the same text again.
C20_DecodeEncodeIsIdentity ==
    /\ (lastOp = "AutoDecode" /\ auto.text # <<>>) =>
          auto.result = Result("media", "MEDIA", ErrNone)
    /\ (lastOp = "Encode" /\ auto.text # <<>>) => buf = auto.text

\* C21 (as claimed): count <= capacity and winsize <= capacity in every
\* reachable state: after construction, after any mutator, and during and
\* after a decode that extends the ring.
C21_WithinCapacity ==
    /\ count <= capacity
    /\ winsize <= capacity

\* C22: a successful Remove takes the segment at head out of the ring
\* (head advances by one modulo capacity, count drops by one, the slots are
\* untouched); it leaves SeqNo alone when the playlist is Closed and
\* increases it by exactly 1 when it is not.
C22_RemoveBumpsUnlessClosed ==
    [][(lastOp' = "Remove" /\ lastErr' = ErrNone)
          => /\ count > 0
             /\ head' = (head + 1) % capacity
             /\ count' = count - 1
             /\ Segments' = Segments
             /\ Closed' = Closed
             /\ SeqNo' = IF Closed THEN SeqNo ELSE SeqNo + 1]_vars

\* C22 witness: of three appended segments one was removed before Close and
\* the other two after it.
C22_Witness ==
    /\ Closed
    /\ lastOp = "Remove"
    /\ lastErr = ErrNone
    /\ count = 0
    /\ SeqNo = 1
    /\ Len(Succeeded) = 3

\* The setters of the last segment.
PerSegmentSetters ==
    {"SetKey", "SetMap", "SetRange", "SetSCTE35", "SetDiscontinuity",
     "SetProgramDateTime", "SetCustomSegmentTag"}

\* C23: called with count = 0, Remove and every per-segment setter return
\* ErrPlaylistEmpty and leave the playlist as it was, on a new playlist and
\* after every appended segment has been removed again.
C23_EmptyPlaylistFails ==
    [][(count = 0 /\ lastOp' \in PerSegmentSetters \cup {"Remove"})
          => /\ lastErr' = ErrPlaylistEmpty
             /\ UNCHANGED <<Segments, capacity, winsize, head, tail, count,
                            SeqNo, ver>>]_vars

\* C23 witness: SetSCTE35 has failed on a playlist whose two appended
\* segments were both removed.
C23_Witness ==
    /\ lastOp = "SetSCTE35"
    /\ lastErr = ErrPlaylistEmpty
    /\ count = 0
    /\ SeqNo = 2
    /\ Len(Succeeded) = 2

\* C24: NewMediaPlaylist(winsize, capacity) fails exactly when
\* winsize > capacity, and returns a playlist of that window and capacity
\* otherwise; SetWinSize(w) fails with ErrWinSizeTooSmall when w is above
\* the capacity of the playlist and sets winsize to w otherwise.
C24_WindowWithinCapacity ==
    /\ lastOp = "NewMediaPlaylist" =>
          IF lastArgs[1] > lastArgs[2]
          THEN lastErr = ErrWinSizeTooSmall
          ELSE /\ lastErr = ErrNone
               /\ winsize = lastArgs[1]
               /\ capacity = lastArgs[2]
               /\ count = 0
    /\ lastOp = "SetWinSize" =>
          IF lastArgs[1] > capacity
          THEN lastErr = ErrWinSizeTooSmall
          ELSE lastErr = ErrNone /\ winsize = lastArgs[1]

\* C24 witness: NewMediaPlaylist(2, 1) has failed, called by a program that
\* holds a playlist with a segment.
C24_Witness ==
    /\ lastOp = "NewMediaPlaylist"
    /\ lastArgs = <<2, 1>>
    /\ lastErr = ErrWinSizeTooSmall
    /\ count = 1

\* C25 (as claimed): on a playlist with winsize = 0, Encode emits every
\* live segment exactly once, oldest first, whatever the ring state.
C25_WinsizeZeroEmitsAll ==
    (lastOp = "Encode" /\ winsize = 0 /\ NoNilLive)
        => EncodedURIs(buf) = LiveURIs

\* C26 (as claimed): GetAllSegments returns exactly the count live
\* segments, oldest first, whatever the window and the ring state, and
\* nothing when count = 0.
C26_GetAllSegmentsOldestFirst ==
    GetAllSegments(Self) = LiveSlots

\* The versions CalculateTargetDuration is asked about.
AskedVersions == {3, 5, 6, 7}

\* C27 (as claimed): with count > 0, in every ring state,
\* CalculateTargetDuration(v) is the maximum live segment duration, rounded
\* up for v <= 5 and to the nearest integer for v >= 6; with count = 0 it
\* is 0.
C27_TargetDurationOfLiveMaximum ==
    NoNilLive =>
        \A v \in AskedVersions :
            CalculateTargetDuration(Self, v) =
                IF count = 0
                THEN 0
                ELSE Rounded(MaxOf({LiveSegs[k].Duration : k \in 1 .. count}),
                             v)

\* C28 (as claimed): CalcMinVersion is at least 8 on every playlist,
\* multivariant or media, that holds at least one EXT-X-DEFINE.
C28_DefineNeedsVersion8 ==
    /\ Len(master.Defines) > 0 => MasterCalcMinVersion(master) >= 8
    /\ Len(Defines) > 0 => MediaCalcMinVersion(Self) >= 8

\* C29: after MasterPlaylist.Append with at least one alternative in its
\* params the declared version of the multivariant playlist is at least 4,
\* and no Append, with or without alternatives, lowers the declared version.
C29_AlternativesRaiseVersion ==
    [][lastOp' = "MasterAppend"
          => /\ lastArgs'[1] > 0 => master'.ver >= 4
             /\ master'.ver >= master.ver
             /\ lastArgs'[1] = 0 => master'.ver = master.ver]_vars

\* C29 witness: a variant with an alternative was appended to a playlist
\* whose version had been set to 6, and the version is still 6.
C29_Witness ==
    /\ lastOp = "MasterAppend"
    /\ lastArgs = <<1>>
    /\ master.ver = 6
    /\ Len(master.Variants) = 2

\* The order of the tuples (groupId, type, name, language).
TupleOf(alt) == <<alt.GroupId, alt.Type, alt.Name, alt.Language>>

TupleLess(s, t) ==
    \E k \in 1 .. 4 :
        /\ \A j \in 1 .. k - 1 : s[j] = t[j]
        /\ StrLess(s[k], t[k])

\* C30: GetAllAlternatives, and with it the EXT-X-MEDIA lines of the
\* multivariant Encode, yields each distinct (groupId, type, name,
\* language) of the variants' alternatives exactly once, two alternatives
\* that differ in any of the four fields both being kept, in ascending
\* order of that tuple.
C30_AlternativesDistinctAndOrdered ==
    LET alts == GetAllAlternatives(master)
        all == AlternativesInOrder(master, 1)
        media == SelectSeq(master.buf, LAMBDA l : l.tag = "EXT-X-MEDIA")
    IN /\ {TupleOf(alts[i]) : i \in 1 .. Len(alts)}
            = {TupleOf(all[i]) : i \in 1 .. Len(all)}
       /\ \A i, j \in 1 .. Len(alts) :
              i < j => TupleLess(TupleOf(alts[i]), TupleOf(alts[j]))
       /\ master.buf # <<>>
              => [i \in 1 .. Len(media) |-> media[i].val] = alts

\* Some line of the input is #EXTM3U.
HasEXTM3U(in) == \E i \in DOMAIN in : in[i].tag = "EXTM3U"

\* C31 (as claimed): the auto-detecting decode of an input that contains
\* #EXTM3U and no type-discriminating tag returns
\* ErrCannotDetectPlaylistType and no playlist (unless, in strict mode, a
\* line returned an error before the end of the input was reached).
C31_UndetectableWithoutDiscriminator ==
    (/\ lastOp = "AutoDecode"
     /\ HasEXTM3U(auto.input)
     /\ ~HasDiscriminator(auto.input)
     /\ ~(auto.strict /\ lastErr \in {ErrParse, ErrPlaylistEmpty}))
    => auto.result = Result("nil", "none", ErrCannotDetectPlaylistType)

\* C32: an Encode call that directly follows an Encode call on the same
\* playlist, no mutator in between, returns the bytes the first one
\* returned: the buffer is not empty and is left as it is.
C32_SecondEncodeFromCache ==
    [][(lastOp = "Encode" /\ lastOp' = "Encode")
          => buf' = buf /\ buf' # <<>>]_vars

\* C32 witness: Encode was called a second time on a closed playlist of two
\* segments.
C32_Witness ==
    /\ lastOp = "Encode"
    /\ lastArgs = <<2>>
    /\ Closed
    /\ count = 2
    /\ Len(EncodedURIs(buf)) = 2

\* The per-segment tags that carry a value, and the segment field each is
\* attached to.
TagField ==
    [t \in {"EXT-X-KEY", "EXT-X-MAP", "EXT-X-BYTERANGE",
            "EXT-X-PROGRAM-DATE-TIME", "EXT-SCTE35", "CUSTOM"} |->
        CASE t = "EXT-X-KEY" -> "Key"
          [] t = "EXT-X-MAP" -> "Map"
          [] t = "EXT-X-BYTERANGE" -> "Limit"
          [] t = "EXT-X-PROGRAM-DATE-TIME" -> "ProgramDateTime"
          [] t = "EXT-SCTE35" -> "SCTE"
          [] OTHER -> "Custom"]

\* Line i of the input stands before URI line j, after the URI line before.
Before(in, i, j) ==
    /\ i \in 1 .. j - 1
    /\ \A k \in i .. j - 1 : in[k].tag # "URI"

\* The lines with the tag that stand before URI line j.
TagsBefore(in, tag, j) ==
    {i \in 1 .. j - 1 : in[i].tag = tag /\ Before(in, i, j)}

\* C33 (as claimed): every buffered per-segment tag is attached to the
\* segment created by the next URI line and to no other segment, and is
\* cleared once attached, also when several kinds are pending together.
\* Each segment carries a tag of a kind exactly if a line of that kind
\* stands between the previous URI line and its own, and after the URI line
\* of a segment nothing is pending.
C33_TagsGoToNextSegment ==
    NoNilLive =>
    /\ \A s \in 1 .. count :
          LET seg == LiveSegs[s]
              j   == seg.URI
          IN  /\ \A t \in DOMAIN TagField :
                    /\ seg[TagField[t]] # 0
                          => seg[TagField[t]] \in TagsBefore(auto.input, t, j)
                    /\ TagsBefore(auto.input, t, j) # {}
                          => seg[TagField[t]] # 0
              /\ seg.Discontinuity
                    <=> TagsBefore(auto.input, "EXT-X-DISCONTINUITY", j) # {}
              /\ seg.SCTE35DateRanges
                    = Cardinality(TagsBefore(auto.input, "EXT-X-DATERANGE", j))
    /\ (/\ decoding # <<>>
        /\ auto.input # <<>>
        /\ IsSegmentURI(auto.input, Len(auto.input)))
       => LET state == decoding[1]
          IN  /\ ~state.tagKey /\ ~state.tagMap /\ ~state.tagRange
              /\ ~state.tagDiscontinuity /\ ~state.tagProgramDateTime
              /\ ~state.tagSCTE35 /\ ~state.tagCustom
              /\ state.scte35DateRanges = 0

\* C34 (as claimed): after Slide returns, the newest live segment is the one
\* it was given, closed or not, any winsize, ring full or not (stated for
\* the playlists of capacity >= 1).
C34_SlideKeepsItsSegment ==
    (lastOp = "Slide" /\ capacity >= 1) =>
        /\ count > 0
        /\ NoNilLive
        /\ LiveSegs[count].URI = appended[Len(appended)].URI

\* C35 (as claimed): a decode, strict or lax, of any sequence of lines
\* never indexes outside the ring and never dereferences an absent segment,
\* that is, no line of it ends in a panic (stated for the playlists of
\* capacity >= 1).
C35_DecodeNeverPanics ==
    (lastOp \in {"decodeLine", "Decode"} /\ capacity >= 1)
        => lastErr # Panic

\* The calls that return an error value.
ErrorReturning ==
    PerSegmentSetters \cup {"Append", "Remove", "SetWinSize"}

\* C36: a mutator call that returns an error leaves the playlist as it
\* was: segments, head, tail, count, SeqNo, winsize, TargetDuration and the
\* declared version are unchanged.
C36_FailedMutatorChangesNothing ==
    [][(lastOp' \in ErrorReturning /\ lastErr' \notin {ErrNone, Panic})
          => UNCHANGED <<Segments, head, tail, count, SeqNo, winsize,
                         TargetDuration, ver>>]_vars

\* C36 witness: SetWinSize has failed on a playlist of two segments whose
\* window is 1.
C36_Witness ==
    /\ lastOp = "SetWinSize"
    /\ lastErr = ErrWinSizeTooSmall
    /\ lastArgs[1] > capacity
    /\ count = 2
    /\ winsize = 1

\* C37 (as claimed): a strict auto-detecting decode succeeds exactly when
\* the strict decode of the same input into a new playlist of the detected
\* kind succeeds, with the same segments or variants; and while the type
\* is not yet known, a line makes it fail only if the parser of the other
\* kind rejects the input as well.
C37_AutoDetectEqualsDirect ==
    (lastOp = "AutoDecode" /\ auto.strict /\ auto.fed # <<>>
        /\ lastErr # Panic) =>
        LET in    == auto.input
            kind  == auto.fed[Len(auto.fed)].listType
            ok    == auto.result.err = ErrNone
            media == StrictMediaDecode(in)
            mastr == StrictMasterDecode(in)
        IN  /\ kind = "MEDIA" =>
                  /\ ok <=> media.err = ErrNone
                  /\ ok => /\ media.p.count = count
                           /\ media.p.Segments = Segments
            /\ kind = "MASTER" =>
                  /\ ok <=> mastr.err = ErrNone
                  /\ ok => mastr.p.Variants = auto.master.Variants
            /\ (kind = "none" /\ auto.result.playlist = "master")
                  => media.err # ErrNone
            /\ (kind = "none" /\ auto.result.playlist = "media")
                  => mastr.err # ErrNone

\* C38: two Encode calls that run concurrently on one shared playlist, with
\* no mutator running, each return exactly the bytes that a sequential
\* Encode of that playlist returns.
C38_ConcurrentEncodesReturnSequentialBytes ==
    \A t \in Threads :
        encoding[t].pc = "returned" =>
            encoding[t].ret = SequentialEncoding

\* The duration and the title that an EXTINF line states: what stands
\* before and after its comma, nothing where the part is missing or is no
\* number.
StatedDuration(line) ==
    IF line.val \in {BadNumber, NoDuration, EmptyDuration}
    THEN 0 ELSE ParseDuration(DurationPart(line.val))
StatedTitle(line) ==
    IF line.val \in {BadNumber, NoDuration, EmptyDuration}
    THEN 0 ELSE TitlePart(line.val)

\* C39 (as claimed): the duration and the title of every decoded segment
\* are those of the EXTINF line that introduces its URI line; nothing of
\* an earlier segment's EXTINF line carries over to it.
C39_DurationAndTitleFromOwnEXTINF ==
    NoNilLive =>
        \A s \in 1 .. count : \A j \in DOMAIN auto.input :
            (/\ auto.input[j] = Line("URI", LiveSegs[s].URI)
             /\ IsSegmentURI(auto.input, j))
            => /\ LiveSegs[s].Duration
                     = StatedDuration(IntroducingEXTINF(auto.input, j))
               /\ LiveSegs[s].Title
                     = StatedTitle(IntroducingEXTINF(auto.input, j))

\* C40 (as claimed): a playlist built by the constructors and the mutators
\* other than SetVersion declares a version that is at least the one
\* CalcMinVersion computes for it.
C40_DeclaredVersionAtLeastMinimum ==
    /\ ver >= MediaCalcMinVersion(Self)
    /\ master.ver >= MasterCalcMinVersion(master)

====
